---- MODULE Spec2Model ----
(***************************************************************************)
(* A state-machine model of the control connection of the Cassandra        *)
(* client driver (src/cpp-driver/src/control_connection.cpp).              *)
(*                                                                         *)
(* One lifetime of one ControlConnection object is modelled, from its      *)
(* construction.  Every handler of the class runs to completion on the     *)
(* session's event loop, so each handler is one atomic action.  A handler  *)
(* is written as an operator from the object's state (a record s holding   *)
(* one field per member, plus the collaborators' state) to the state it    *)
(* leaves, so that a handler calling another is function composition.      *)
(*                                                                         *)
(* The collaborators that are not part of control_connection.cpp (the      *)
(* socket, the connector, the timer, the session) are modelled from the    *)
(* specification text.                                                     *)
(***************************************************************************)
EXTENDS Integers, Sequences, FiniteSets, Bags, TLC

(***************************************************************************)
(* Bounds of the model.                                                    *)
(***************************************************************************)
NumHosts == 2        \* addresses are 1..NumHosts
MaxSockets == 2      \* sockets alive at the same time
MaxStreams == 2      \* size of a socket's stream-id pool
MaxCassVersion == 5  \* highest Cassandra-lineage version a configuration names
MaxDseVersion == 4   \* highest DSE subversion a configuration names
MaxPlanHosts == 6    \* hosts of the session map a startup plan is built over
ExtraCalls == 2      \* compute_next() calls made on a plan after its last host
MaxPeerAddrs == 3    \* addresses a system.peers row is resolved over
MaxMajor == 3        \* highest major number of a server release
MaxMinor == 2        \* highest minor number of a server release
MaxPatch == 1        \* highest patch number of a server release

(***************************************************************************)
(* Program constants.                                                      *)
(***************************************************************************)
CASS_HIGHEST_SUPPORTED_PROTOCOL_VERSION == 4
DSE_PROTOCOL_VERSION_BIT == 64
DSE_PROTOCOL_VERSION_MASK == 63
RECONNECT_WAIT_MS == 1000

Null == 0
Addrs == 1..NumHosts
SockIds == 1..MaxSockets

CONTROL_STATE_NEW == "NEW"
CONTROL_STATE_READY == "READY"
CONTROL_STATE_CLOSED == "CLOSED"

CASS_ERROR_LIB_NO_HOSTS_AVAILABLE == "NO_HOSTS_AVAILABLE"
CASS_ERROR_LIB_UNABLE_TO_DETERMINE_PROTOCOL == "UNABLE_TO_DETERMINE_PROTOCOL"
CASS_ERROR_SERVER_BAD_CREDENTIALS == "BAD_CREDENTIALS"
CASS_ERROR_LIB_UNABLE_TO_CONNECT == "UNABLE_TO_CONNECT"

CASS_EVENT_TOPOLOGY_CHANGE == "TOPOLOGY_CHANGE"
CASS_EVENT_STATUS_CHANGE == "STATUS_CHANGE"
CASS_EVENT_SCHEMA_CHANGE == "SCHEMA_CHANGE"

VARIABLES
  state_,                \* ControlConnection::state_
  session_,              \* TRUE once connect(session) has set session_
  connection_,           \* the adopted socket, or Null
  current_host_,         \* address of current_host_, or Null
  query_plan_,           \* the query plan being consumed
  protocol_version_,     \* the negotiated protocol version
  use_schema_,
  token_aware_routing_,
  event_types_,          \* the event mask handed to every connector
  cassandra_version_,    \* the server version V
  reconnect_timer_,      \* 0: stopped; otherwise the armed delay in ms
  sockets,               \* socket id -> [status, addr]
  connectors,            \* connect attempts in flight, in start order
  pending,               \* bag of requests in flight [sock, kind, host, is_new, arg]
  hosts,                 \* the session's host map: addr -> host record
  errors,                \* codes given to on_control_connection_error, in order
  ready_calls,           \* number of on_control_connection_ready calls
  attempts,              \* versions tried on current_host_ since it was chosen
  crashed,               \* a null connection_ was dereferenced
  schema_read_issued,    \* a bulk schema request has been sent
  last_op,               \* the handler that ran last
  last_result,           \* the result the connector gave handle_connect
  last_input,            \* the results the server gave the last handler
  calls                  \* what the last handler called, in order

vars == <<state_, session_, connection_, current_host_, query_plan_,
          protocol_version_, use_schema_, token_aware_routing_, event_types_,
          cassandra_version_, reconnect_timer_, sockets, connectors, pending,
          hosts, errors, ready_calls, attempts, crashed, schema_read_issued,
          last_op, last_result, last_input, calls>>

(***************************************************************************)
(* The state as one record, and the action that installs a record.         *)
(***************************************************************************)
Cur ==
  [state_ |-> state_, session_ |-> session_, connection_ |-> connection_,
   current_host_ |-> current_host_, query_plan_ |-> query_plan_,
   protocol_version_ |-> protocol_version_, use_schema_ |-> use_schema_,
   token_aware_routing_ |-> token_aware_routing_, event_types_ |-> event_types_,
   cassandra_version_ |-> cassandra_version_, reconnect_timer_ |-> reconnect_timer_,
   sockets |-> sockets, connectors |-> connectors, pending |-> pending,
   hosts |-> hosts, errors |-> errors, ready_calls |-> ready_calls,
   attempts |-> attempts, crashed |-> crashed,
   schema_read_issued |-> schema_read_issued, last_op |-> last_op,
   last_result |-> last_result, last_input |-> last_input, calls |-> calls]

Install(s) ==
  /\ state_' = s.state_
  /\ session_' = s.session_
  /\ connection_' = s.connection_
  /\ current_host_' = s.current_host_
  /\ query_plan_' = s.query_plan_
  /\ protocol_version_' = s.protocol_version_
  /\ use_schema_' = s.use_schema_
  /\ token_aware_routing_' = s.token_aware_routing_
  /\ event_types_' = s.event_types_
  /\ cassandra_version_' = s.cassandra_version_
  /\ reconnect_timer_' = s.reconnect_timer_
  /\ sockets' = s.sockets
  /\ connectors' = s.connectors
  /\ pending' = s.pending
  /\ hosts' = s.hosts
  /\ errors' = s.errors
  /\ ready_calls' = s.ready_calls
  /\ attempts' = s.attempts
  /\ crashed' = s.crashed
  /\ schema_read_issued' = s.schema_read_issued
  /\ last_op' = s.last_op
  /\ last_result' = s.last_result
  /\ last_input' = s.last_input
  /\ calls' = s.calls

\* The state a handler named op starts from: the log of calls is emptied.
Begin(op) ==
  [Cur EXCEPT !.last_op = op, !.last_result = "", !.last_input = <<>>,
              !.calls = <<>>]

Called(s, c) == [s EXCEPT !.calls = Append(@, c)]


(***************************************************************************)
(* Values.                                                                 *)
(***************************************************************************)
\* VersionNumber: <<major, minor, patch>>; a default-constructed one is 0.0.0.
V0 == <<0, 0, 0>>
V311 == <<3, 11, 0>>
\* What release_version can hold: a version that parses, or text that does not.
BadRelease == <<>>
ReleaseStrings == {V311, BadRelease}
\* The releases at which the layout of the schema tables changes.
V20 == <<2, 0, 0>>
V21 == <<2, 1, 0>>
V22 == <<2, 2, 0>>
V30 == <<3, 0, 0>>

\* VersionNumber::operator>=
VersionGE(a, b) ==
  \/ a[1] > b[1]
  \/ a[1] = b[1] /\ a[2] > b[2]
  \/ a[1] = b[1] /\ a[2] = b[2] /\ a[3] >= b[3]

\* A host record of the session's map.  state: ADDED, UP or DOWN; marked: the
\* host carries the session's current generation mark; listen: the host has a
\* listen address.
NoHost ==
  [present |-> FALSE, state |-> "ADDED", marked |-> FALSE, version |-> V0,
   listen |-> FALSE]

NewHost ==
  [present |-> TRUE, state |-> "ADDED", marked |-> FALSE, version |-> V0,
   listen |-> FALSE]

NoSocket == [status |-> "none", addr |-> Null]

Max(a, b) == IF a >= b THEN a ELSE b

(***************************************************************************)
(* ControlStartupQueryPlan and the session's query plans.  A plan is       *)
(* [hosts, index, count].                                                  *)
(***************************************************************************)
\* The constructor; next is the value random->next(max(1, size)) returned, and
\* has_random is FALSE when the session has no PRNG.
ControlStartupQueryPlan(host_seq, has_random, next) ==
  [hosts |-> host_seq, index |-> IF has_random THEN next ELSE 0, count |-> 0]

\* compute_next() that starts at the first host whatever index_ is.
compute_next_from_first(plan) ==
  LET size == Len(plan.hosts) IN
  IF plan.count >= size THEN <<Null, plan>>
  ELSE <<plan.hosts[(plan.count % size) + 1],
         [plan EXCEPT !.count = @ + 1]>>

\* compute_next(): <<the host returned (Null at the end), the plan afterwards>>.
compute_next(plan) ==
  LET size == Len(plan.hosts) IN
  IF plan.count >= size THEN <<Null, plan>>
  ELSE <<plan.hosts[((plan.index + plan.count) % size) + 1],
         [plan EXCEPT !.count = @ + 1]>>

\* Session::new_query_plan(): the load-balancing policy's plan, some sequence
\* of the session's hosts.
new_query_plan(host_seq) == [hosts |-> host_seq, index |-> 0, count |-> 0]

NoPlan == [hosts |-> <<>>, index |-> 0, count |-> 0]

PresentHosts(s) == {a \in Addrs : s.hosts[a].present}

(***************************************************************************)
(* The socket (Connection), the timer and the session.                     *)
(***************************************************************************)
\* Connection::close(): the socket starts closing; the close callback comes
\* later, from the event loop.
connection_close(s, c) ==
  Called(IF s.sockets[c].status = "open"
           THEN [s EXCEPT !.sockets[c].status = "closing"]
           ELSE s,
         <<"socket_close", c>>)

\* Connection::defunct(): as close(), the socket is marked unusable.
connection_defunct(s, c) ==
  Called(IF s.sockets[c].status = "open"
           THEN [s EXCEPT !.sockets[c].status = "closing"]
           ELSE s,
         <<"defunct", c>>)

\* The requests in flight on socket c.
InFlight(s, c) == {r \in BagToSet(s.pending) : r.sock = c}
StreamsInUse(s, c) ==
  LET rs == InFlight(s, c) IN
  BagCardinality([r \in rs |-> s.pending[r]])

\* Connection::write_and_flush() succeeds iff a stream id is free.
can_write(s, c) == StreamsInUse(s, c) < MaxStreams

Request(c, kind, host, is_new, arg) ==
  [sock |-> c, kind |-> kind, host |-> host, is_new |-> is_new, arg |-> arg]

\* Connection::write_and_flush(): the request is sent when a stream id is
\* free, and dropped otherwise.
write_and_flush(s, req) ==
  IF can_write(s, req.sock)
    THEN Called([s EXCEPT !.pending = @ (+) SetToBag({req})],
                <<"query", req.sock, req.kind>>)
    ELSE s

\* Timer::start / Timer::stop
timer_start(s, ms) == Called([s EXCEPT !.reconnect_timer_ = ms], <<"timer_start", ms>>)
timer_stop(s) == [s EXCEPT !.reconnect_timer_ = 0]

session_get_host(s, a) == IF s.hosts[a].present THEN a ELSE Null

session_add_host(s, a) ==
  Called([s EXCEPT !.hosts[a] = NewHost], <<"add_host", a>>)

session_on_add(s, a) == Called(s, <<"on_add", a>>)

session_on_remove(s, a) ==
  Called(IF a = Null THEN s ELSE [s EXCEPT !.hosts[a] = NoHost], <<"on_remove", a>>)

session_on_up(s, a) ==
  Called(IF a = Null THEN s ELSE [s EXCEPT !.hosts[a].state = "UP"], <<"on_up", a>>)

session_on_down(s, a) ==
  Called(IF a = Null THEN s ELSE [s EXCEPT !.hosts[a].state = "DOWN"], <<"on_down", a>>)

session_token_map_host_remove(s, a) == Called(s, <<"token_map_host_remove", a>>)

\* Session::purge_hosts(): the hosts without the current generation mark are
\* removed, then the generation changes, so no host carries the new mark.
session_purge_hosts(s, is_initial_connection) ==
  Called([s EXCEPT !.hosts =
            [a \in Addrs |->
               IF s.hosts[a].present /\ s.hosts[a].marked
                 THEN [s.hosts[a] EXCEPT !.marked = FALSE]
                 ELSE NoHost]],
         <<"purge_hosts", {a \in Addrs : s.hosts[a].present /\ ~s.hosts[a].marked}>>)

session_on_control_connection_ready(s) ==
  Called([s EXCEPT !.ready_calls = @ + 1], <<"on_control_connection_ready">>)

(***************************************************************************)
(* ControlConnection: the connection lifecycle.                            *)
(***************************************************************************)
\* ControlConnection::close()
close(s) ==
  LET s1 == [s EXCEPT !.state_ = CONTROL_STATE_CLOSED]
      s2 == IF s1.connection_ /= Null
              THEN connection_close(s1, s1.connection_)
              ELSE s1
  IN timer_stop(s2)

\* Session::on_control_connection_error(): the session records the error and
\* shuts the control connection down.
session_on_control_connection_error(s, code) ==
  close(Called([s EXCEPT !.errors = Append(@, code)],
               <<"on_control_connection_error", code>>))

\* schedule_reconnect() that never starts the timer.
schedule_reconnect_without_timer(s, ms) == s

\* ControlConnection::schedule_reconnect()
schedule_reconnect(s, ms) == timer_start(s, ms)

\* Connector(...)->connect(): a connect attempt to host at version starts.
connector_connect(s, host, version) ==
  Called([s EXCEPT !.connectors = Append(@, [host |-> host, version |-> version])],
         <<"connect", host, version>>)

\* reconnect() without the test for CONTROL_STATE_CLOSED.
reconnect_when_closed(s, retry_current_host) ==
  LET nxt == compute_next(s.query_plan_)
      s1 == IF ~retry_current_host
              THEN [s EXCEPT !.current_host_ = nxt[1], !.query_plan_ = nxt[2],
                             !.attempts = <<>>]
              ELSE s
  IN
  IF ~retry_current_host /\ s1.current_host_ = Null
    THEN IF s1.state_ = CONTROL_STATE_READY
           THEN schedule_reconnect(s1, RECONNECT_WAIT_MS)
           ELSE session_on_control_connection_error(
                  s1, CASS_ERROR_LIB_NO_HOSTS_AVAILABLE)
    ELSE
      LET s2 == IF s1.connection_ /= Null
                  THEN connection_close(s1, s1.connection_)
                  ELSE s1
          s3 == [s2 EXCEPT !.attempts = Append(@, s2.protocol_version_)]
      IN connector_connect(s3, s3.current_host_, s3.protocol_version_)

\* reconnect() that treats an exhausted plan as fatal in every state.
reconnect_exhaustion_is_fatal(s, retry_current_host) ==
  IF s.state_ = CONTROL_STATE_CLOSED THEN s
  ELSE
    LET nxt == compute_next(s.query_plan_)
        s1 == IF ~retry_current_host
                THEN [s EXCEPT !.current_host_ = nxt[1], !.query_plan_ = nxt[2],
                               !.attempts = <<>>]
                ELSE s
    IN
    IF ~retry_current_host /\ s1.current_host_ = Null
      THEN session_on_control_connection_error(
             s1, CASS_ERROR_LIB_NO_HOSTS_AVAILABLE)
      ELSE
        LET s2 == IF s1.connection_ /= Null
                    THEN connection_close(s1, s1.connection_)
                    ELSE s1
            s3 == [s2 EXCEPT !.attempts = Append(@, s2.protocol_version_)]
        IN connector_connect(s3, s3.current_host_, s3.protocol_version_)

\* ControlConnection::reconnect()
reconnect(s, retry_current_host) ==
  IF s.state_ = CONTROL_STATE_CLOSED THEN s
  ELSE
    LET nxt == compute_next(s.query_plan_)
        s1 == IF ~retry_current_host
                THEN [s EXCEPT !.current_host_ = nxt[1], !.query_plan_ = nxt[2],
                               !.attempts = <<>>]
                ELSE s
    IN
    IF ~retry_current_host /\ s1.current_host_ = Null
      THEN IF s1.state_ = CONTROL_STATE_READY
             THEN schedule_reconnect(s1, RECONNECT_WAIT_MS)
             ELSE session_on_control_connection_error(
                    s1, CASS_ERROR_LIB_NO_HOSTS_AVAILABLE)
      ELSE
        LET s2 == IF s1.connection_ /= Null
                    THEN connection_close(s1, s1.connection_)
                    ELSE s1
            s3 == [s2 EXCEPT !.attempts = Append(@, s2.protocol_version_)]
        IN connector_connect(s3, s3.current_host_, s3.protocol_version_)

\* on_close() that starts over from NEW when the socket of a READY
\* connection is lost.
on_close_starts_over(s, c) ==
  reconnect([s EXCEPT !.connection_ = Null,
                      !.state_ = IF @ = CONTROL_STATE_READY
                                   THEN CONTROL_STATE_NEW ELSE @],
            FALSE)

\* ControlConnection::on_close()
on_close(s, c) == reconnect([s EXCEPT !.connection_ = Null], FALSE)

\* ControlConnection::on_reconnect()
on_reconnect(s, host_seq) ==
  reconnect([s EXCEPT !.query_plan_ = new_query_plan(host_seq)], FALSE)

\* ControlConnection::query_meta_hosts()
query_meta_hosts(s) ==
  write_and_flush(s, Request(s.connection_, "hosts", Null, FALSE, <<>>))

\* The protocol version to try after version was refused
\* (handle_connect, the invalid-protocol branch).
IsDseVersion(version) == (version \div DSE_PROTOCOL_VERSION_BIT) % 2 = 1

\* The step down that leaves a DSE version of subversion 1 or less as it is.
lower_protocol_version_stays_dse(version) ==
  IF IsDseVersion(version)
    THEN LET dse_version == version % (DSE_PROTOCOL_VERSION_MASK + 1) IN
         IF dse_version <= 1 THEN version ELSE version - 1
    ELSE version - 1

\* The step down that leaves DSE for the version above the highest supported.
lower_protocol_version_above_highest(version) ==
  IF IsDseVersion(version)
    THEN LET dse_version == version % (DSE_PROTOCOL_VERSION_MASK + 1) IN
         IF dse_version <= 1
           THEN CASS_HIGHEST_SUPPORTED_PROTOCOL_VERSION + 1
           ELSE version - 1
    ELSE version - 1

\* The step down that decrements whatever the lineage.
lower_protocol_version_decrements(version) == version - 1

lower_protocol_version(version) ==
  IF IsDseVersion(version)
    THEN LET dse_version == version % (DSE_PROTOCOL_VERSION_MASK + 1) IN
         IF dse_version <= 1
           THEN CASS_HIGHEST_SUPPORTED_PROTOCOL_VERSION
           ELSE version - 1
    ELSE version - 1

\* The id the next socket gets.
FreeSockIds(s) == {c \in SockIds : s.sockets[c].status = "none"}
NewSockId(s) == CHOOSE c \in FreeSockIds(s) : \A d \in FreeSockIds(s) : c <= d

\* handle_connect() that keeps the topology of the previous connection when it
\* reconnects in READY.
handle_connect_reuses_topology(s, connector, result) ==
  IF result = "ok"
    THEN LET c == NewSockId(s)
             s1 == [s EXCEPT !.sockets[c] = [status |-> "open", addr |-> connector.host],
                             !.connection_ = c]
         IN IF s.state_ = CONTROL_STATE_READY THEN s1 ELSE query_meta_hosts(s1)
    ELSE
      IF s.state_ = CONTROL_STATE_NEW /\ result = "invalid_protocol"
        THEN IF s.protocol_version_ <= 1
               THEN session_on_control_connection_error(
                      s, CASS_ERROR_LIB_UNABLE_TO_DETERMINE_PROTOCOL)
               ELSE reconnect([s EXCEPT !.protocol_version_ = lower_protocol_version(@)],
                              TRUE)
      ELSE IF s.state_ = CONTROL_STATE_NEW /\ result = "auth_error"
        THEN session_on_control_connection_error(s, CASS_ERROR_SERVER_BAD_CREDENTIALS)
      ELSE IF s.state_ = CONTROL_STATE_NEW /\ result = "ssl_error"
        THEN session_on_control_connection_error(s, CASS_ERROR_LIB_UNABLE_TO_CONNECT)
      ELSE reconnect(s, FALSE)

\* handle_connect() that takes an authentication error for a failure to move
\* on from.
handle_connect_auth_is_transient(s, connector, result) ==
  IF result = "ok"
    THEN LET c == NewSockId(s)
             s1 == [s EXCEPT !.sockets[c] = [status |-> "open", addr |-> connector.host],
                             !.connection_ = c]
         IN query_meta_hosts(s1)
    ELSE
      IF s.state_ = CONTROL_STATE_NEW /\ result = "invalid_protocol"
        THEN IF s.protocol_version_ <= 1
               THEN session_on_control_connection_error(
                      s, CASS_ERROR_LIB_UNABLE_TO_DETERMINE_PROTOCOL)
               ELSE reconnect([s EXCEPT !.protocol_version_ = lower_protocol_version(@)],
                              TRUE)
      ELSE IF s.state_ = CONTROL_STATE_NEW /\ result = "ssl_error"
        THEN session_on_control_connection_error(s, CASS_ERROR_LIB_UNABLE_TO_CONNECT)
      ELSE reconnect(s, FALSE)

\* handle_connect() that takes any failure to connect in NEW for a fatal one.
handle_connect_tcp_is_fatal(s, connector, result) ==
  IF result = "ok"
    THEN LET c == NewSockId(s)
             s1 == [s EXCEPT !.sockets[c] = [status |-> "open", addr |-> connector.host],
                             !.connection_ = c]
         IN query_meta_hosts(s1)
    ELSE
      IF s.state_ = CONTROL_STATE_NEW /\ result = "invalid_protocol"
        THEN IF s.protocol_version_ <= 1
               THEN session_on_control_connection_error(
                      s, CASS_ERROR_LIB_UNABLE_TO_DETERMINE_PROTOCOL)
               ELSE reconnect([s EXCEPT !.protocol_version_ = lower_protocol_version(@)],
                              TRUE)
      ELSE IF s.state_ = CONTROL_STATE_NEW /\ result = "auth_error"
        THEN session_on_control_connection_error(s, CASS_ERROR_SERVER_BAD_CREDENTIALS)
      ELSE IF s.state_ = CONTROL_STATE_NEW /\ result \in {"ssl_error", "error"}
        THEN session_on_control_connection_error(s, CASS_ERROR_LIB_UNABLE_TO_CONNECT)
      ELSE reconnect(s, FALSE)

\* handle_connect() that reports bad credentials and SSL failures in every
\* state.
handle_connect_fatal_in_any_state(s, connector, result) ==
  IF result = "ok"
    THEN LET c == NewSockId(s)
             s1 == [s EXCEPT !.sockets[c] = [status |-> "open", addr |-> connector.host],
                             !.connection_ = c]
         IN query_meta_hosts(s1)
    ELSE
      IF s.state_ = CONTROL_STATE_NEW /\ result = "invalid_protocol"
        THEN IF s.protocol_version_ <= 1
               THEN session_on_control_connection_error(
                      s, CASS_ERROR_LIB_UNABLE_TO_DETERMINE_PROTOCOL)
               ELSE reconnect([s EXCEPT !.protocol_version_ = lower_protocol_version(@)],
                              TRUE)
      ELSE IF result = "auth_error"
        THEN session_on_control_connection_error(s, CASS_ERROR_SERVER_BAD_CREDENTIALS)
      ELSE IF result = "ssl_error"
        THEN session_on_control_connection_error(s, CASS_ERROR_LIB_UNABLE_TO_CONNECT)
      ELSE reconnect(s, FALSE)

\* handle_connect() that tries the same host again after a plain error.
handle_connect_retries_same_host(s, connector, result) ==
  IF result = "ok"
    THEN LET c == NewSockId(s)
             s1 == [s EXCEPT !.sockets[c] = [status |-> "open", addr |-> connector.host],
                             !.connection_ = c]
         IN query_meta_hosts(s1)
    ELSE reconnect(s, TRUE)

\* ControlConnection::handle_connect(); the connector has been taken out of
\* s.connectors.  result: ok, invalid_protocol, auth_error, ssl_error, error.
handle_connect_negotiates_in_any_state(s, connector, result) ==
  IF result = "ok"
    THEN LET c == NewSockId(s)
             s1 == [s EXCEPT !.sockets[c] = [status |-> "open", addr |-> connector.host],
                             !.connection_ = c]
         IN query_meta_hosts(s1)
    ELSE
      IF result = "invalid_protocol"
        THEN IF s.protocol_version_ <= 1
               THEN session_on_control_connection_error(
                      s, CASS_ERROR_LIB_UNABLE_TO_DETERMINE_PROTOCOL)
               ELSE reconnect([s EXCEPT !.protocol_version_ = lower_protocol_version(@)],
                              TRUE)
      ELSE IF s.state_ = CONTROL_STATE_NEW /\ result = "auth_error"
        THEN session_on_control_connection_error(s, CASS_ERROR_SERVER_BAD_CREDENTIALS)
      ELSE IF s.state_ = CONTROL_STATE_NEW /\ result = "ssl_error"
        THEN session_on_control_connection_error(s, CASS_ERROR_LIB_UNABLE_TO_CONNECT)
      ELSE reconnect(s, FALSE)

handle_connect(s, connector, result) ==
  IF result = "ok"
    THEN LET c == NewSockId(s)
             s1 == [s EXCEPT !.sockets[c] = [status |-> "open", addr |-> connector.host],
                             !.connection_ = c]
         IN query_meta_hosts(s1)
    ELSE
      IF s.state_ = CONTROL_STATE_NEW /\ result = "invalid_protocol"
        THEN IF s.protocol_version_ <= 1
               THEN session_on_control_connection_error(
                      s, CASS_ERROR_LIB_UNABLE_TO_DETERMINE_PROTOCOL)
               ELSE reconnect([s EXCEPT !.protocol_version_ = lower_protocol_version(@)],
                              TRUE)
      ELSE IF s.state_ = CONTROL_STATE_NEW /\ result = "auth_error"
        THEN session_on_control_connection_error(s, CASS_ERROR_SERVER_BAD_CREDENTIALS)
      ELSE IF s.state_ = CONTROL_STATE_NEW /\ result = "ssl_error"
        THEN session_on_control_connection_error(s, CASS_ERROR_LIB_UNABLE_TO_CONNECT)
      ELSE reconnect(s, FALSE)

\* ControlConnection::connect(); host_seq is session_->hosts_ in map order,
\* version is the configured protocol version.
connect(s, host_seq, has_random, next, version, use_schema, token_aware_routing) ==
  LET s1 == [s EXCEPT
               !.session_ = TRUE,
               !.query_plan_ = ControlStartupQueryPlan(host_seq, has_random, next),
               !.protocol_version_ =
                  IF version < 0 THEN CASS_HIGHEST_SUPPORTED_PROTOCOL_VERSION
                  ELSE version,
               !.use_schema_ = use_schema,
               !.token_aware_routing_ = token_aware_routing,
               !.event_types_ =
                  IF use_schema \/ token_aware_routing
                    THEN {CASS_EVENT_TOPOLOGY_CHANGE, CASS_EVENT_STATUS_CHANGE,
                          CASS_EVENT_SCHEMA_CHANGE}
                    ELSE {CASS_EVENT_TOPOLOGY_CHANGE, CASS_EVENT_STATUS_CHANGE}]
  IN reconnect(s1, FALSE)


(***************************************************************************)
(* Host refresh.                                                           *)
(***************************************************************************)
\* Column values of a system.peers row.
\* Addresses are positive; the other values a column can hold are negative.
NullValue == -1
BadInet == -2
BIND_ANY_IPV4 == -3
BIND_ANY_IPV6 == -4
PeerValues == Addrs \cup {BadInet}
RpcValues == Addrs \cup {NullValue, BadInet, BIND_ANY_IPV4, BIND_ANY_IPV6}

\* determine_address_for_peer_host() comparing only the rpc address with the
\* connected address.
determine_address_ignoring_peer(connected_address, peer_value, rpc_value) ==
  IF peer_value = BadInet THEN Null
  ELSE IF rpc_value /= NullValue
    THEN IF rpc_value = BadInet THEN Null
         ELSE IF connected_address = rpc_value
           THEN Null
         ELSE IF rpc_value = BIND_ANY_IPV4 \/ rpc_value = BIND_ANY_IPV6
           THEN peer_value
         ELSE rpc_value
    ELSE Null

\* ControlConnection::determine_address_for_peer_host(): the address to use,
\* or Null when the row is rejected.
determine_address_for_peer_host(connected_address, peer_value, rpc_value) ==
  IF peer_value = BadInet THEN Null
  ELSE IF rpc_value /= NullValue
    THEN IF rpc_value = BadInet THEN Null
         ELSE IF connected_address = rpc_value \/ connected_address = peer_value
           THEN Null
         ELSE IF rpc_value = BIND_ANY_IPV4 \/ rpc_value = BIND_ANY_IPV6
           THEN peer_value
         ELSE rpc_value
    ELSE Null

ADD_HOST == "ADD_HOST"
UPDATE_HOST_AND_BUILD == "UPDATE_HOST_AND_BUILD"

\* A row as update_node_info reads it: peer is the "peer" column (NullValue
\* when the row has none, as in system.local), release the release_version.
Row(peer, release) == [peer |-> peer, release |-> release]

\* update_node_info() taking the release of the connected host's row as the
\* server version.
update_node_info_sets_version(s, host, row, type) ==
  LET s0 == Called(s, <<"update_node_info", host>>)
      s1 == IF row.peer /= NullValue /\ row.peer /= BadInet /\ s0.hosts[host].present
              THEN [s0 EXCEPT !.hosts[host].listen = TRUE]
              ELSE s0
      s2 == IF row.release /= BadRelease /\ s1.hosts[host].present
              THEN [s1 EXCEPT !.hosts[host].version = row.release,
                              !.cassandra_version_ =
                                 IF s1.connection_ /= Null
                                    /\ host = s1.sockets[s1.connection_].addr
                                   THEN row.release ELSE @]
              ELSE s1
  IN IF s2.token_aware_routing_
       THEN Called(s2, <<IF type = UPDATE_HOST_AND_BUILD
                           THEN "token_map_host_update"
                           ELSE "token_map_host_add", host>>)
       ELSE s2

\* ControlConnection::update_node_info(); host is an address of the session.
update_node_info(s, host, row, type) ==
  LET s0 == Called(s, <<"update_node_info", host>>)
      s1 == IF row.peer /= NullValue /\ row.peer /= BadInet /\ s0.hosts[host].present
              THEN [s0 EXCEPT !.hosts[host].listen = TRUE]
              ELSE s0
      s2 == IF row.release /= BadRelease /\ s1.hosts[host].present
              THEN [s1 EXCEPT !.hosts[host].version = row.release]
              ELSE s1
  IN IF s2.token_aware_routing_
       THEN Called(s2, <<IF type = UPDATE_HOST_AND_BUILD
                           THEN "token_map_host_update"
                           ELSE "token_map_host_add", host>>)
       ELSE s2

\* The layout the selects of the bulk schema request are written for:
\* system_schema.* ("modern", the SELECT_*_30 statements) or system.schema_*
\* ("legacy").
schema_layout(version) ==
  IF VersionGE(version, <<3, 0, 0>>) THEN "modern" ELSE "legacy"

\* schema_tables() reading user types only from release 2.2 on.
schema_tables_types_from_22(version, use_schema) ==
  IF VersionGE(version, <<3, 0, 0>>)
    THEN <<"keyspaces">> \o
         (IF use_schema
            THEN <<"tables", "views", "columns", "indexes", "user_types",
                   "functions", "aggregates">>
            ELSE <<>>)
    ELSE <<"keyspaces">> \o
         (IF use_schema
            THEN <<"tables", "columns">> \o
                 (IF VersionGE(version, <<2, 2, 0>>)
                    THEN <<"user_types", "functions", "aggregates">> ELSE <<>>)
            ELSE <<>>)

\* schema_tables() without the select of the views.
schema_tables_without_views(version, use_schema) ==
  IF VersionGE(version, <<3, 0, 0>>)
    THEN <<"keyspaces">> \o
         (IF use_schema
            THEN <<"tables", "columns", "indexes", "user_types",
                   "functions", "aggregates">>
            ELSE <<>>)
    ELSE <<"keyspaces">> \o
         (IF use_schema
            THEN <<"tables", "columns">> \o
                 (IF VersionGE(version, <<2, 1, 0>>) THEN <<"user_types">> ELSE <<>>) \o
                 (IF VersionGE(version, <<2, 2, 0>>)
                    THEN <<"functions", "aggregates">> ELSE <<>>)
            ELSE <<>>)

\* The tables the bulk schema request reads (query_meta_schema).
schema_tables(version, use_schema) ==
  IF VersionGE(version, <<3, 0, 0>>)
    THEN <<"keyspaces">> \o
         (IF use_schema
            THEN <<"tables", "views", "columns", "indexes", "user_types",
                   "functions", "aggregates">>
            ELSE <<>>)
    ELSE <<"keyspaces">> \o
         (IF use_schema
            THEN <<"tables", "columns">> \o
                 (IF VersionGE(version, <<2, 1, 0>>) THEN <<"user_types">> ELSE <<>>) \o
                 (IF VersionGE(version, <<2, 2, 0>>)
                    THEN <<"functions", "aggregates">> ELSE <<>>)
            ELSE <<>>)

\* A bulk schema read that is sent on the initial connection only.
query_meta_schema_initial_only(s) ==
  IF s.state_ /= CONTROL_STATE_NEW \/ (~s.use_schema_ /\ ~s.token_aware_routing_)
    THEN s
  ELSE write_and_flush(s, Request(s.connection_, "schema", Null, FALSE,
                                  [layout |-> schema_layout(s.cassandra_version_),
                                   tables |-> schema_tables(s.cassandra_version_,
                                                            s.use_schema_)]))

\* ControlConnection::query_meta_schema()
query_meta_schema(s) ==
  IF ~s.use_schema_ /\ ~s.token_aware_routing_ THEN s
  ELSE LET sent == write_and_flush(
                     s, Request(s.connection_, "schema", Null, FALSE,
                                [layout |-> schema_layout(s.cassandra_version_),
                                 tables |-> schema_tables(s.cassandra_version_,
                                                          s.use_schema_)]))
       IN IF can_write(s, s.connection_)
            THEN [sent EXCEPT !.schema_read_issued = TRUE]
            ELSE sent

\* host->set_mark(session->current_host_mark_)
host_set_mark(s, a) ==
  Called([s EXCEPT !.hosts[a].marked = TRUE], <<"set_mark", a>>)

\* The promotion to READY (on_query_hosts and on_query_meta_schema);
\* host_seq is the plan the session's load-balancing policy gives.
promote_to_ready(s, host_seq) ==
  LET s1 == session_on_control_connection_ready(
              [s EXCEPT !.state_ = CONTROL_STATE_READY])
  IN [s1 EXCEPT !.query_plan_ = new_query_plan(host_seq)]

\* The loop of on_query_hosts leaving the hosts of the peers rows unmarked.
RECURSIVE process_peers_unmarked(_, _, _, _, _)
process_peers_unmarked(s, connected_address, rows, release, is_initial_connection) ==
  IF rows = <<>> THEN s
  ELSE
    LET row == Head(rows)
        address == determine_address_for_peer_host(connected_address, row.peer, row.rpc)
    IN
    IF address = Null
      THEN process_peers_unmarked(s, connected_address, Tail(rows), release,
                                  is_initial_connection)
      ELSE
        LET is_new == session_get_host(s, address) = Null
            s1 == IF is_new THEN session_add_host(s, address) ELSE s
            s3 == update_node_info(s1, address, Row(row.peer, release), ADD_HOST)
            s4 == IF is_new /\ ~is_initial_connection
                    THEN session_on_add(s3, address) ELSE s3
        IN process_peers_unmarked(s4, connected_address, Tail(rows), release,
                                  is_initial_connection)

\* The loop of on_query_hosts over the rows of system.peers.
RECURSIVE process_peers(_, _, _, _, _)
process_peers(s, connected_address, rows, release, is_initial_connection) ==
  IF rows = <<>> THEN s
  ELSE
    LET row == Head(rows)
        address == determine_address_for_peer_host(connected_address, row.peer, row.rpc)
    IN
    IF address = Null
      THEN process_peers(s, connected_address, Tail(rows), release, is_initial_connection)
      ELSE
        LET is_new == session_get_host(s, address) = Null
            s1 == IF is_new THEN session_add_host(s, address) ELSE s
            s2 == host_set_mark(s1, address)
            s3 == update_node_info(s2, address, Row(row.peer, release), ADD_HOST)
            s4 == IF is_new /\ ~is_initial_connection
                    THEN session_on_add(s3, address) ELSE s3
        IN process_peers(s4, connected_address, Tail(rows), release, is_initial_connection)

\* on_query_hosts() going on with the peers rows and the purge when
\* system.local has no row.
on_query_hosts_without_local(s, local, peers, host_seq) ==
  IF s.connection_ = Null THEN s
  ELSE
    LET connection == s.connection_
        address == s.sockets[connection].addr
        is_initial_connection == s.state_ = CONTROL_STATE_NEW
        host == session_get_host(s, address)
    IN
    IF host = Null THEN connection_defunct(s, connection)
    ELSE
      LET s2 == host_set_mark(s, host)
          s3 == IF local.rows = 0 THEN s2
                ELSE update_node_info(s2, host, Row(NullValue, local.release), ADD_HOST)
          s4 == [s3 EXCEPT !.cassandra_version_ = s3.hosts[host].version]
          s5 == process_peers(s4, address, peers.rows, peers.release,
                              is_initial_connection)
          s6 == session_purge_hosts(s5, is_initial_connection)
      IN
      IF s6.use_schema_ \/ s6.token_aware_routing_
        THEN query_meta_schema(s6)
        ELSE IF is_initial_connection
          THEN promote_to_ready(s6, host_seq)
          ELSE s6

\* ControlConnection::on_query_hosts().  local: [rows, release], the result
\* of system.local; peers: [rows, release], the rows <<[peer, rpc]>> of
\* system.peers and their release_version.
on_query_hosts(s, local, peers, host_seq) ==
  IF s.connection_ = Null THEN s
  ELSE
    LET connection == s.connection_
        address == s.sockets[connection].addr
        s1 == IF s.token_aware_routing_
                THEN Called(s, <<"token_map_hosts_cleared">>) ELSE s
        is_initial_connection == s.state_ = CONTROL_STATE_NEW
        host == session_get_host(s1, address)
    IN
    IF host = Null THEN connection_defunct(s1, connection)
    ELSE
      LET s2 == host_set_mark(s1, host) IN
      IF local.rows = 0 THEN connection_defunct(s2, connection)
      ELSE
        LET s3 == update_node_info(s2, host, Row(NullValue, local.release), ADD_HOST)
            s4 == [s3 EXCEPT !.cassandra_version_ = s3.hosts[host].version]
            s5 == process_peers(s4, address, peers.rows, peers.release,
                                is_initial_connection)
            s6 == session_purge_hosts(s5, is_initial_connection)
        IN
        IF s6.use_schema_ \/ s6.token_aware_routing_
          THEN query_meta_schema(s6)
          ELSE IF is_initial_connection
            THEN promote_to_ready(s6, host_seq)
            ELSE s6

\* ControlConnection::on_query_meta_schema(); tables: the tables the
\* response holds a result for.
RECURSIVE metadata_updates(_, _)
metadata_updates(s, tables) ==
  IF tables = <<>> THEN s
  ELSE metadata_updates(Called(s, <<"metadata_update", Head(tables)>>), Tail(tables))

\* on_query_meta_schema() swapping the buffers before the last two tables
\* are written.
on_query_meta_schema_swaps_early(s, tables, host_seq) ==
  IF s.connection_ = Null THEN s
  ELSE
    LET is_initial_connection == s.state_ = CONTROL_STATE_NEW
        s1 == IF s.token_aware_routing_
                THEN Called(s, <<"token_map_keyspaces_add">>) ELSE s
        early == SubSeq(tables, 1, Len(tables) - 2)
        late == SubSeq(tables, Len(tables) - 1, Len(tables))
        s2 == IF s1.use_schema_
                THEN metadata_updates(
                       Called(metadata_updates(
                                Called(s1, <<"metadata_clear_and_update_back">>), early),
                              <<"metadata_swap_to_back_and_update_front">>),
                       late)
                ELSE s1
    IN IF is_initial_connection THEN promote_to_ready(s2, host_seq) ELSE s2

\* on_query_meta_schema() promoting whatever the state is.
on_query_meta_schema_always_ready(s, tables, host_seq) ==
  IF s.connection_ = Null THEN s
  ELSE
    LET s1 == IF s.token_aware_routing_
                THEN Called(s, <<"token_map_keyspaces_add">>) ELSE s
        s2 == IF s1.use_schema_
                THEN Called(metadata_updates(
                              Called(s1, <<"metadata_clear_and_update_back">>), tables),
                            <<"metadata_swap_to_back_and_update_front">>)
                ELSE s1
    IN promote_to_ready(s2, host_seq)

on_query_meta_schema(s, tables, host_seq) ==
  IF s.connection_ = Null THEN s
  ELSE
    LET is_initial_connection == s.state_ = CONTROL_STATE_NEW
        s1 == IF s.token_aware_routing_
                THEN Called(s, <<"token_map_keyspaces_add">>) ELSE s
        s2 == IF s1.use_schema_
                THEN Called(metadata_updates(
                              Called(s1, <<"metadata_clear_and_update_back">>), tables),
                            <<"metadata_swap_to_back_and_update_front">>)
                ELSE s1
    IN IF is_initial_connection THEN promote_to_ready(s2, host_seq) ELSE s2


\* ControlConnection::refresh_node_info()
refresh_node_info(s, host, is_new_node) ==
  IF s.connection_ = Null THEN s
  ELSE
    LET is_connected_host == host = s.sockets[s.connection_].addr
        req == IF is_connected_host \/ s.hosts[host].listen
                 THEN Request(s.connection_, "node_info", host, is_new_node,
                              IF is_connected_host THEN "local" ELSE "peers")
                 ELSE Request(s.connection_, "node_info_all", host, is_new_node, "peers")
    IN IF can_write(s, s.connection_)
         THEN write_and_flush(s, req)
         ELSE connection_defunct(s, s.connection_)

\* ControlConnection::on_refresh_node_info(); rows: the row count; release:
\* the release_version of the first row.
on_refresh_node_info(s, req, rows, release) ==
  IF s.connection_ = Null THEN s
  ELSE IF rows = 0 THEN s
  ELSE
    LET s1 == update_node_info(
                s, req.host,
                Row(IF req.arg = "local" THEN NullValue ELSE req.host, release),
                UPDATE_HOST_AND_BUILD)
    IN IF req.is_new THEN session_on_add(s1, req.host) ELSE s1

\* ControlConnection::on_refresh_node_info_all(); rows: <<[peer, rpc]>>.
RECURSIVE find_peer_row(_, _, _)
find_peer_row(connected_address, host, rows) ==
  IF rows = <<>> THEN <<>>
  ELSE IF determine_address_for_peer_host(connected_address, Head(rows).peer,
                                          Head(rows).rpc) = host
    THEN <<Head(rows)>>
    ELSE find_peer_row(connected_address, host, Tail(rows))

on_refresh_node_info_all(s, req, rows, release) ==
  IF s.connection_ = Null THEN s
  ELSE IF rows = <<>> THEN s
  ELSE
    LET found == find_peer_row(s.sockets[s.connection_].addr, req.host, rows) IN
    IF found = <<>> THEN s
    ELSE
      LET s1 == update_node_info(s, req.host, Row(found[1].peer, release),
                                 UPDATE_HOST_AND_BUILD)
      IN IF req.is_new THEN session_on_add(s1, req.host) ELSE s1

(***************************************************************************)
(* Targeted schema refreshes.                                              *)
(***************************************************************************)
\* A dereference of connection_: undefined when it is null.
null_dereference(s) == [s EXCEPT !.crashed = TRUE]

\* refresh_keyspace(), refresh_type(), refresh_function(): one query, and a
\* defunct when no stream id is free.
refresh_single(s, kind, arg) ==
  IF s.connection_ = Null THEN null_dereference(s)
  ELSE IF can_write(s, s.connection_)
    THEN write_and_flush(s, Request(s.connection_, kind, Null, FALSE, arg))
    ELSE connection_defunct(s, s.connection_)

Layout(s) == IF VersionGE(s.cassandra_version_, <<3, 0, 0>>) THEN "modern" ELSE "legacy"

refresh_keyspace(s) == refresh_single(s, "keyspace", Layout(s))

refresh_type(s) == refresh_single(s, "type", Layout(s))

refresh_function(s, is_aggregate) ==
  refresh_single(s, "function", IF is_aggregate THEN "aggregate" ELSE "function")

\* ControlConnection::refresh_table_or_view(): a chained query, whose write
\* result is not looked at.
refresh_table_or_view(s) ==
  IF s.connection_ = Null THEN null_dereference(s)
  ELSE write_and_flush(s, Request(s.connection_, "table", Null, FALSE, Layout(s)))

\* A keyspace callback that treats an empty result as a failed query.
on_refresh_keyspace_defuncts_when_empty(s, rows) ==
  IF rows = 0 THEN connection_defunct(s, s.connection_)
  ELSE Called(s, <<"metadata_update", "keyspaces">>)

\* ControlConnection::on_refresh_keyspace()
on_refresh_keyspace(s, rows) ==
  IF rows = 0 THEN s
  ELSE
    LET s1 == IF s.token_aware_routing_
                THEN Called(s, <<"token_map_keyspaces_update">>) ELSE s
    IN IF s1.use_schema_ THEN Called(s1, <<"metadata_update", "keyspaces">>) ELSE s1

\* ControlConnection::on_refresh_table_or_view(); the views and indexes
\* results exist only in the modern layout.
on_refresh_table_or_view(s, req, table_rows, view_rows) ==
  LET has_views == req.arg = "modern"
      s1 == IF table_rows = 0
              THEN IF ~has_views \/ view_rows = 0
                     THEN s
                     ELSE Called(s, <<"metadata_update", "views">>)
              ELSE Called(s, <<"metadata_update", "tables">>)
  IN IF table_rows = 0 /\ (~has_views \/ view_rows = 0) THEN s
     ELSE LET s2 == Called(s1, <<"metadata_update", "columns">>)
          IN IF has_views THEN Called(s2, <<"metadata_update", "indexes">>) ELSE s2

\* ControlConnection::on_refresh_type()
on_refresh_type(s, rows) ==
  IF rows = 0 THEN s ELSE Called(s, <<"metadata_update", "user_types">>)

\* ControlConnection::on_refresh_function()
on_refresh_function(s, req, rows) ==
  IF rows = 0 THEN s
  ELSE Called(s, <<"metadata_update",
                   IF req.arg = "aggregate" THEN "aggregates" ELSE "functions">>)

(***************************************************************************)
(* The error hooks of the request callbacks.                               *)
(***************************************************************************)
\* handle_query_invalid_response() on a response that is an error or has the
\* wrong opcode, handle_query_failure() and handle_query_timeout().
handle_query_invalid_response(s) ==
  IF s.connection_ /= Null THEN connection_defunct(s, s.connection_) ELSE s

\* A server error that is only logged.
handle_query_failure_only_logs(s) == s

\* ControlConnection::handle_query_failure()
handle_query_failure(s) ==
  IF s.connection_ /= Null THEN connection_defunct(s, s.connection_) ELSE s

\* A timeout that starts a new connect attempt and leaves the socket alone.
handle_query_timeout_reconnects(s) ==
  connector_connect(s, s.current_host_, s.protocol_version_)

\* ControlConnection::handle_query_timeout()
handle_query_timeout(s) ==
  IF s.connection_ /= Null THEN connection_defunct(s, s.connection_) ELSE s

(***************************************************************************)
(* The event handler.                                                      *)
(***************************************************************************)
\* ControlConnection::on_up()
on_up(s, address) ==
  LET host == session_get_host(s, address) IN
  IF host /= Null
    THEN IF s.hosts[host].state = "UP" THEN s
         ELSE refresh_node_info(session_on_up(s, host), host, FALSE)
    ELSE refresh_node_info(session_add_host(s, address), address, TRUE)

\* ControlConnection::on_down()
on_down(s, address) ==
  LET host == session_get_host(s, address) IN
  IF host /= Null
    THEN IF s.hosts[host].state = "DOWN" THEN s ELSE session_on_down(s, host)
    ELSE s

TopologyChanges == {"NEW_NODE", "REMOVED_NODE", "MOVED_NODE"}
StatusChanges == {"UP", "DOWN"}
SchemaChanges == {"CREATED", "UPDATED", "DROPPED"}
SchemaTargets == {"KEYSPACE", "TABLE", "TYPE", "FUNCTION", "AGGREGATE"}

\* An event: [event_type, change, node, target]
Events ==
  [event_type : {CASS_EVENT_TOPOLOGY_CHANGE}, change : TopologyChanges,
   node : Addrs, target : {"NONE"}]
  \cup
  [event_type : {CASS_EVENT_STATUS_CHANGE}, change : StatusChanges,
   node : Addrs, target : {"NONE"}]
  \cup
  [event_type : {CASS_EVENT_SCHEMA_CHANGE}, change : SchemaChanges,
   node : {Null}, target : SchemaTargets]

\* A topology branch that tells the session of a new node at event time.
on_topology_change_adds_at_event(s, response) ==
  LET host == session_get_host(s, response.node) IN
  IF response.change = "NEW_NODE" /\ host = Null
    THEN session_on_add(refresh_node_info(session_add_host(s, response.node),
                                          response.node, TRUE),
                        response.node)
    ELSE s

\* The topology branch of on_event
on_topology_change(s, response) ==
  LET host == session_get_host(s, response.node) IN
  CASE response.change = "NEW_NODE" ->
         IF host = Null
           THEN refresh_node_info(session_add_host(s, response.node),
                                  response.node, TRUE)
           ELSE s
    [] response.change = "REMOVED_NODE" ->
         IF host /= Null
           THEN session_token_map_host_remove(session_on_remove(s, host), host)
           ELSE s
    [] response.change = "MOVED_NODE" ->
         IF host /= Null
           THEN refresh_node_info(s, host, FALSE)
           ELSE session_token_map_host_remove(s, host)

\* A schema branch that answers a drop by reading the keyspace again.
on_schema_change_refreshes_on_drop(s, response) ==
  IF ~s.use_schema_ /\ response.target /= "KEYSPACE" THEN s
  ELSE refresh_keyspace(s)

\* A schema branch without the test of schema tracking.
on_schema_change_without_tracking_test(s, response) ==
  IF response.change \in {"CREATED", "UPDATED"}
    THEN CASE response.target = "KEYSPACE" -> refresh_keyspace(s)
           [] response.target = "TABLE" -> refresh_table_or_view(s)
           [] response.target = "TYPE" -> refresh_type(s)
           [] response.target \in {"FUNCTION", "AGGREGATE"} ->
                refresh_function(s, response.target = "AGGREGATE")
    ELSE Called(s, <<"metadata_drop", "any">>)

\* The schema branch of on_event
on_schema_change(s, response) ==
  IF ~s.use_schema_ /\ response.target /= "KEYSPACE" THEN s
  ELSE IF response.change \in {"CREATED", "UPDATED"}
    THEN CASE response.target = "KEYSPACE" -> refresh_keyspace(s)
           [] response.target = "TABLE" -> refresh_table_or_view(s)
           [] response.target = "TYPE" -> refresh_type(s)
           [] response.target \in {"FUNCTION", "AGGREGATE"} ->
                refresh_function(s, response.target = "AGGREGATE")
    ELSE CASE response.target = "KEYSPACE" -> Called(s, <<"metadata_drop", "keyspace">>)
           [] response.target = "TABLE" -> Called(s, <<"metadata_drop", "table_or_view">>)
           [] response.target = "TYPE" -> Called(s, <<"metadata_drop", "user_type">>)
           [] response.target = "FUNCTION" -> Called(s, <<"metadata_drop", "function">>)
           [] response.target = "AGGREGATE" -> Called(s, <<"metadata_drop", "aggregate">>)

\* on_event() without the test of the control state.
on_event_in_any_state(s, response) ==
  CASE response.event_type = CASS_EVENT_TOPOLOGY_CHANGE ->
         on_topology_change(s, response)
    [] response.event_type = CASS_EVENT_STATUS_CHANGE ->
         IF response.change = "UP"
           THEN on_up(s, response.node)
           ELSE on_down(s, response.node)
    [] response.event_type = CASS_EVENT_SCHEMA_CHANGE ->
         on_schema_change(s, response)

\* ControlConnection::on_event()
on_event(s, response) ==
  IF s.state_ /= CONTROL_STATE_READY THEN s
  ELSE CASE response.event_type = CASS_EVENT_TOPOLOGY_CHANGE ->
              on_topology_change(s, response)
         [] response.event_type = CASS_EVENT_STATUS_CHANGE ->
              IF response.change = "UP"
                THEN on_up(s, response.node)
                ELSE on_down(s, response.node)
         [] response.event_type = CASS_EVENT_SCHEMA_CHANGE ->
              on_schema_change(s, response)


(***************************************************************************)
(* The initial state and the actions.                                      *)
(***************************************************************************)
Init ==
  /\ state_ = CONTROL_STATE_NEW
  /\ session_ = FALSE
  /\ connection_ = Null
  /\ current_host_ = Null
  /\ query_plan_ = NoPlan
  /\ protocol_version_ = 0
  /\ use_schema_ = FALSE
  /\ token_aware_routing_ = FALSE
  /\ event_types_ = {}
  /\ cassandra_version_ = V0
  /\ reconnect_timer_ = 0
  /\ sockets = [c \in SockIds |-> NoSocket]
  /\ connectors = <<>>
  /\ pending = EmptyBag
  /\ hosts = [a \in Addrs |-> NoHost]
  /\ errors = <<>>
  /\ ready_calls = 0
  /\ attempts = <<>>
  /\ crashed = FALSE
  /\ schema_read_issued = FALSE
  /\ last_op = "init"
  /\ last_result = ""
  /\ last_input = <<>>
  /\ calls = <<>>

\* The protocol versions a configuration can name: negative (use the highest
\* supported), a Cassandra version, or a DSE version.
CassVersions == 1..MaxCassVersion
DseVersions == {DSE_PROTOCOL_VERSION_BIT + d : d \in 1..MaxDseVersion}
AllConfigVersions == {-1} \cup CassVersions \cup DseVersions

\* <<use_schema, token_aware_routing>>
AllConfigFlags == BOOLEAN \X BOOLEAN

\* The plans the session's load-balancing policy gives: the session's hosts
\* in address order, starting at any of them (round robin).
RECURSIVE SortedSeq(_)
SortedSeq(S) ==
  IF S = {} THEN <<>>
  ELSE LET m == CHOOSE x \in S : \A y \in S : x <= y
       IN <<m>> \o SortedSeq(S \ {m})

Rotations(q) ==
  IF q = <<>> THEN {<<>>}
  ELSE {[i \in 1..Len(q) |-> q[((i + k - 1) % Len(q)) + 1]] : k \in 0..(Len(q) - 1)}

SessionPlans(s) == Rotations(SortedSeq(PresentHosts(s)))

\* The session starts the control connection: Session calls connect(this).
\* The session's host map holds the contact points 1..n.
Connect(versions, flag_pairs, contact_points) ==
  /\ ~session_
  /\ \E n \in contact_points, has_random \in BOOLEAN, version \in versions,
        flags \in flag_pairs :
       \E next \in 0..(Max(1, n) - 1) :
         LET s0 == [Begin("connect") EXCEPT
                      !.hosts = [a \in Addrs |-> IF a <= n THEN NewHost ELSE NoHost]]
         IN Install(connect(s0, [i \in 1..n |-> i], has_random, next, version,
                            flags[1], flags[2]))

\* The session shuts the control connection down: close().
Close ==
  /\ session_ /\ ~crashed
  /\ state_ /= CONTROL_STATE_CLOSED
  /\ Install(close(Begin("close")))

RemoveAt(q, i) == [j \in 1..(Len(q) - 1) |-> IF j < i THEN q[j] ELSE q[j + 1]]

ConnectResults == {"ok", "invalid_protocol", "auth_error", "ssl_error", "error"}

\* A connect attempt ends and the connector calls on_connect().
ConnectorDone(results) ==
  /\ ~crashed
  /\ \E i \in 1..Len(connectors), result \in results :
       /\ result = "ok" => FreeSockIds(Cur) /= {}
       /\ LET s0 == [Begin("handle_connect") EXCEPT !.connectors = RemoveAt(@, i),
                                                    !.last_result = result]
          IN Install(handle_connect(s0, connectors[i], result))

\* A socket is closed (by close(), by defunct() or by the peer): its requests
\* in flight fail, then the listener's on_close() runs.
SocketClosed(statuses) ==
  /\ ~crashed
  /\ \E c \in SockIds :
       /\ sockets[c].status \in statuses
       /\ LET s0 == Begin("on_close")
              s1 == IF InFlight(s0, c) /= {} THEN handle_query_failure(s0) ELSE s0
              s2 == [s1 EXCEPT
                       !.pending = [r \in BagToSet(@) \ InFlight(s1, c) |-> @[r]],
                       !.sockets[c] = NoSocket]
          IN Install(on_close(s2, c))

\* The reconnect timer fires: on_reconnect().
TimerFires ==
  /\ ~crashed
  /\ reconnect_timer_ /= 0
  /\ \E host_seq \in SessionPlans(Cur) :
       Install(on_reconnect([Begin("on_reconnect") EXCEPT !.reconnect_timer_ = 0],
                            host_seq))

\* An open socket delivers an event the connection registered for.
Event(events) ==
  /\ ~crashed
  /\ \E c \in SockIds, response \in events :
       /\ sockets[c].status = "open"
       /\ response.event_type \in event_types_
       /\ Install(on_event([Begin("on_event") EXCEPT !.last_input = <<response>>],
                            response))

\* The results system.local and system.peers can give.
LocalResult(rows, release) == [rows |-> rows, release |-> release]
PeersResult(rows, release) == [rows |-> rows, release |-> release]
PeerRows == [peer : PeerValues, rpc : RpcValues]
AllLocalResults == [rows : 0..1, release : ReleaseStrings]
AllPeersResults == [rows : {<<>>} \cup {<<r>> : r \in PeerRows}, release : ReleaseStrings]

Take(s, req) == [s EXCEPT !.pending = @ (-) SetToBag({req})]

\* The state the callback op of request req starts from, given the results
\* the server sent.
Answered(op, req, results) ==
  [Take(Begin(op), req) EXCEPT !.last_input = <<req>> \o results]

\* The response to the full host scan arrives on an open socket.
HostsResponse(local_results, peers_results) ==
  /\ ~crashed
  /\ \E req \in BagToSet(pending) :
       /\ sockets[req.sock].status = "open"
       /\ req.kind = "hosts"
       /\ \E local \in local_results, peers \in peers_results :
            LET s0 == [Take(Begin("on_query_hosts"), req)
                         EXCEPT !.last_input = <<local, peers, req>>] IN
            \E host_seq \in SessionPlans(on_query_hosts(s0, local, peers, <<>>)) :
              Install(on_query_hosts(s0, local, peers, host_seq))

\* The response to the bulk schema read arrives on an open socket.
SchemaResponse ==
  /\ ~crashed
  /\ \E req \in BagToSet(pending) :
       /\ sockets[req.sock].status = "open"
       /\ req.kind = "schema"
       /\ \E host_seq \in SessionPlans(Cur) :
            Install(on_query_meta_schema(Take(Begin("on_query_meta_schema"), req),
                                         req.arg.tables, host_seq))

\* The response to a single-host refresh arrives on an open socket.
NodeInfoResponse(releases, peers_results) ==
  /\ ~crashed
  /\ \E req \in BagToSet(pending) :
       /\ sockets[req.sock].status = "open"
       /\ \/ /\ req.kind = "node_info"
             /\ \E rows \in 0..1, release \in releases :
                  Install(on_refresh_node_info(
                            Answered("on_refresh_node_info", req, <<rows, release>>),
                            req, rows, release))
          \/ /\ req.kind = "node_info_all"
             /\ \E peers \in peers_results :
                  Install(on_refresh_node_info_all(
                            Answered("on_refresh_node_info_all", req, <<peers>>),
                            req, peers.rows, peers.release))

\* The response to a targeted schema refresh arrives on an open socket.
SchemaRefreshResponse ==
  /\ ~crashed
  /\ \E req \in BagToSet(pending) :
       /\ sockets[req.sock].status = "open"
       /\ \/ /\ req.kind = "keyspace"
             /\ \E rows \in 0..1 :
                  Install(on_refresh_keyspace(
                            Answered("on_refresh_keyspace", req, <<rows>>), rows))
          \/ /\ req.kind = "table"
             /\ \E table_rows \in 0..1, view_rows \in 0..1 :
                  Install(on_refresh_table_or_view(
                            Answered("on_refresh_table_or_view", req,
                                     <<table_rows, view_rows>>),
                            req, table_rows, view_rows))
          \/ /\ req.kind = "type"
             /\ \E rows \in 0..1 :
                  Install(on_refresh_type(
                            Answered("on_refresh_type", req, <<rows>>), rows))
          \/ /\ req.kind = "function"
             /\ \E rows \in 0..1 :
                  Install(on_refresh_function(
                            Answered("on_refresh_function", req, <<rows>>), req, rows))

\* A request in flight on an open socket fails: an invalid response, a server
\* error or a timeout.
QueryFails ==
  /\ ~crashed
  /\ \E req \in BagToSet(pending) :
       /\ sockets[req.sock].status = "open"
       /\ \/ Install(handle_query_invalid_response(
                       Answered("handle_query_invalid_response", req, <<>>)))
          \/ Install(handle_query_failure(Answered("handle_query_failure", req, <<>>)))
          \/ Install(handle_query_timeout(Answered("handle_query_timeout", req, <<>>)))

(***************************************************************************)
(* The connection lifecycle: connecting, the initial scans, losing the     *)
(* socket, failing queries, reconnecting and shutting down, in a cluster   *)
(* whose nodes all run one release and whose system.peers rows are well    *)
(* formed.                                                                 *)
(***************************************************************************)
LifecycleVersions == {2}
LifecycleFlags == {<<FALSE, FALSE>>, <<TRUE, FALSE>>}
\* Node 1 is reported down.
LifecycleEvents == {e \in Events : e.change = "DOWN" /\ e.node = 1}
LifecycleLocal == [rows : 0..1, release : {V311}]
LifecyclePeers ==
  [rows : {<<>>} \cup {<<[peer |-> a, rpc |-> a]>> : a \in Addrs}, release : {V311}]

Next ==
  \/ Connect(LifecycleVersions, LifecycleFlags, {NumHosts})
  \/ Close
  \/ ConnectorDone(ConnectResults)
  \/ SocketClosed({"open", "closing"})
  \/ TimerFires
  \/ Event(LifecycleEvents)
  \/ HostsResponse(LifecycleLocal, LifecyclePeers)
  \/ SchemaResponse
  \/ QueryFails

Spec == Init /\ [][Next]_vars

(***************************************************************************)
(* Server events: a token-aware session without schema metadata, whose     *)
(* connection is sent every event it registered for at any moment its      *)
(* socket is open: during the initial scans, in READY and after a          *)
(* shutdown.  The scans find the connected node alone; the refreshes the   *)
(* events start stay in flight.                                            *)
(***************************************************************************)
EventsLocal == {LocalResult(1, V311)}
EventsPeers == {PeersResult(<<>>, V311)}

NextEvents ==
  \/ Connect({-1}, {<<FALSE, TRUE>>}, {NumHosts})
  \/ Close
  \/ ConnectorDone({"ok"})
  \/ SocketClosed({"closing"})
  \/ Event(Events)
  \/ HostsResponse(EventsLocal, EventsPeers)
  \/ SchemaResponse

SpecEvents == Init /\ [][NextEvents]_vars

(***************************************************************************)
(* Protocol negotiation: every configurable protocol version, against      *)
(* hosts that accept the offered version or reject it as invalid.          *)
(***************************************************************************)
NextNegotiation ==
  \/ Connect(AllConfigVersions, AllConfigFlags, 0..NumHosts)
  \/ ConnectorDone({"ok", "invalid_protocol"})

SpecNegotiation == Init /\ [][NextNegotiation]_vars

(***************************************************************************)
(* Refusal: hosts that reject every offered version as invalid.  The event *)
(* loop runs every connect attempt to its callback, hence the fairness.    *)
(***************************************************************************)
NextRefusal ==
  \/ Connect(AllConfigVersions, AllConfigFlags, 1..NumHosts)
  \/ ConnectorDone({"invalid_protocol"})

SpecRefusal == Init /\ [][NextRefusal]_vars /\ WF_vars(NextRefusal)

(***************************************************************************)
(* The startup query plan on its own: built over the session's host map    *)
(* (the hosts 1..n in map order) with or without a PRNG, then asked for    *)
(* its next host again and again.  calls holds the construction and then   *)
(* every host returned.                                                    *)
(***************************************************************************)
InitStartupPlan ==
  \E n \in 1..MaxPlanHosts, has_random \in BOOLEAN :
    \E next \in 0..(Max(1, n) - 1) :
      /\ state_ = CONTROL_STATE_NEW
      /\ session_ = FALSE
      /\ connection_ = Null
      /\ current_host_ = Null
      /\ query_plan_ = ControlStartupQueryPlan([i \in 1..n |-> i], has_random, next)
      /\ protocol_version_ = 0
      /\ use_schema_ = FALSE
      /\ token_aware_routing_ = FALSE
      /\ event_types_ = {}
      /\ cassandra_version_ = V0
      /\ reconnect_timer_ = 0
      /\ sockets = [c \in SockIds |-> NoSocket]
      /\ connectors = <<>>
      /\ pending = EmptyBag
      /\ hosts = [a \in Addrs |-> NoHost]
      /\ errors = <<>>
      /\ ready_calls = 0
      /\ attempts = <<>>
      /\ crashed = FALSE
      /\ schema_read_issued = FALSE
      /\ last_op = "ControlStartupQueryPlan"
      /\ last_result = ""
      /\ last_input = <<>>
      /\ calls = <<<<"ControlStartupQueryPlan", has_random, next>>>>

\* current_host_ = query_plan_->compute_next()
PlanNext ==
  /\ Len(calls) <= Len(query_plan_.hosts) + ExtraCalls
  /\ LET nxt == compute_next(query_plan_) IN
     Install([Cur EXCEPT !.last_op = "compute_next",
                         !.current_host_ = nxt[1],
                         !.query_plan_ = nxt[2],
                         !.calls = Append(@, <<"compute_next", nxt[1]>>)])

SpecStartupPlan == InitStartupPlan /\ [][PlanNext]_vars

(***************************************************************************)
(* The address resolver alone: a connected address and the two columns of  *)
(* a system.peers row are drawn, then the resolver is applied.  Both       *)
(* columns hold any inet value, a wildcard included.  calls holds the      *)
(* inputs and then the result.                                             *)
(***************************************************************************)
InitWith(op, made) ==
  /\ state_ = CONTROL_STATE_NEW
  /\ session_ = FALSE
  /\ connection_ = Null
  /\ current_host_ = Null
  /\ query_plan_ = NoPlan
  /\ protocol_version_ = 0
  /\ use_schema_ = FALSE
  /\ token_aware_routing_ = FALSE
  /\ event_types_ = {}
  /\ cassandra_version_ = V0
  /\ reconnect_timer_ = 0
  /\ sockets = [c \in SockIds |-> NoSocket]
  /\ connectors = <<>>
  /\ pending = EmptyBag
  /\ hosts = [a \in Addrs |-> NoHost]
  /\ errors = <<>>
  /\ ready_calls = 0
  /\ attempts = <<>>
  /\ crashed = FALSE
  /\ schema_read_issued = FALSE
  /\ last_op = op
  /\ last_result = ""
  /\ last_input = <<>>
  /\ calls = made

PeerAddrs == 1..MaxPeerAddrs
Wildcards == {BIND_ANY_IPV4, BIND_ANY_IPV6}
AnyPeerValues == PeerAddrs \cup Wildcards \cup {BadInet}
AnyRpcValues == PeerAddrs \cup Wildcards \cup {NullValue, BadInet}

InitPeerAddress ==
  \E A \in PeerAddrs, P \in AnyPeerValues, R \in AnyRpcValues :
    InitWith("peers_row", <<<<"peers_row", A, P, R>>>>)

PeerAddressResolved ==
  /\ Len(calls) = 1
  /\ Install([Cur EXCEPT
       !.last_op = "determine_address_for_peer_host",
       !.calls = Append(@, <<"determine_address_for_peer_host",
                             determine_address_for_peer_host(
                               calls[1][2], calls[1][3], calls[1][4])>>)])

SpecPeerAddress == InitPeerAddress /\ [][PeerAddressResolved]_vars

(***************************************************************************)
(* The full host scan: a control connection without schema tracking and    *)
(* without token-aware routing connects, loses its socket and reconnects;  *)
(* system.local has a row or none and system.peers has up to two rows of   *)
(* any kind.                                                               *)
(***************************************************************************)
ScanLocal == [rows : 0..1, release : {V311}]
ScanPeers ==
  [rows : {<<>>} \cup {<<r>> : r \in PeerRows}
                 \cup {<<r1, r2>> : r1 \in PeerRows, r2 \in PeerRows},
   release : {V311}]

NextHostScan ==
  \/ Connect({-1}, {<<FALSE, FALSE>>}, {NumHosts})
  \/ ConnectorDone({"ok"})
  \/ SocketClosed({"open", "closing"})
  \/ HostsResponse(ScanLocal, ScanPeers)

SpecHostScan == Init /\ [][NextHostScan]_vars

(***************************************************************************)
(* The refreshes: a control connection with schema tracking connects and   *)
(* scans; events make it refresh single hosts and parts of the schema, and *)
(* the responses arrive.  The control host reports one release in the      *)
(* scan and any release in a later refresh.                                *)
(***************************************************************************)
RefreshLocal == {LocalResult(1, V22), LocalResult(1, V311), LocalResult(1, BadRelease)}
RefreshPeers == {PeersResult(<<>>, V311)}
RefreshReleases == {V311, BadRelease}
RefreshEvents ==
  {e \in Events :
     \/ e.change \in {"NEW_NODE", "MOVED_NODE"} /\ e.node \in {1, 2}
     \/ e.change = "UPDATED" /\ e.target = "KEYSPACE"}
RefreshNodePeers ==
  {PeersResult(<<>>, V311)} \cup
  {PeersResult(<<[peer |-> a, rpc |-> a]>>, V311) : a \in Addrs}

NextRefresh ==
  \/ Connect({-1}, {<<TRUE, FALSE>>}, {NumHosts})
  \/ ConnectorDone({"ok"})
  \/ SocketClosed({"closing"})
  \/ HostsResponse(RefreshLocal, RefreshPeers)
  \/ SchemaResponse
  \/ Event(RefreshEvents)
  \/ NodeInfoResponse(RefreshReleases, RefreshNodePeers)
  \/ SchemaRefreshResponse

SpecRefresh == Init /\ [][NextRefresh]_vars

(***************************************************************************)
(* The promotion to READY: a control connection with any combination of    *)
(* schema tracking and token-aware routing connects, scans, reads the      *)
(* schema, loses its socket, reconnects and is shut down.                  *)
(***************************************************************************)
NextPromotion ==
  \/ Connect({-1}, AllConfigFlags, {NumHosts})
  \/ Close
  \/ ConnectorDone({"ok"})
  \/ SocketClosed({"open", "closing"})
  \/ HostsResponse(LifecycleLocal, LifecyclePeers)
  \/ SchemaResponse

SpecPromotion == Init /\ [][NextPromotion]_vars

(***************************************************************************)
(* The bulk schema read: a control connection with any combination of      *)
(* schema tracking and token-aware routing connects to a server of any     *)
(* release, scans it and reads the schema.                                 *)
(***************************************************************************)
SchemaReleases ==
  {<<major, minor, patch>> :
     major \in 1..MaxMajor, minor \in 0..MaxMinor, patch \in 0..MaxPatch}
  \cup {V311}
SchemaLocal == {LocalResult(1, release) : release \in SchemaReleases}
SchemaPeers == {PeersResult(<<>>, V311)}

NextSchemaRead ==
  \/ Connect({-1}, AllConfigFlags, {NumHosts})
  \/ ConnectorDone({"ok"})
  \/ HostsResponse(SchemaLocal, SchemaPeers)
  \/ SchemaResponse

SpecSchemaRead == Init /\ [][NextSchemaRead]_vars

(***************************************************************************)
(* Schema events: a control connection with schema tracking, token-aware   *)
(* routing or both connects to a 2.2 or a 3.11 server and is sent every    *)
(* schema event and the arrival or move of a node; the refreshes are       *)
(* answered with a row or with none.                                       *)
(***************************************************************************)
TrackingFlags == {<<TRUE, FALSE>>, <<FALSE, TRUE>>}
SchemaEventsLocal == {LocalResult(1, V22), LocalResult(1, V311)}
SchemaEvents ==
  {e \in Events :
     \/ e.event_type = CASS_EVENT_SCHEMA_CHANGE
     \/ e.change \in {"NEW_NODE", "MOVED_NODE"} /\ e.node = 1}

NextSchemaEvents ==
  \/ Connect({-1}, TrackingFlags, {NumHosts})
  \/ ConnectorDone({"ok"})
  \/ SocketClosed({"closing"})
  \/ HostsResponse(SchemaEventsLocal, RefreshPeers)
  \/ SchemaResponse
  \/ Event(SchemaEvents)
  \/ NodeInfoResponse(RefreshReleases, RefreshNodePeers)
  \/ SchemaRefreshResponse

SpecSchemaEvents == Init /\ [][NextSchemaEvents]_vars

(***************************************************************************)
(* Failing queries: a connection with schema tracking runs its host scan   *)
(* and its schema read, refreshes a host or a keyspace on an event, and    *)
(* any of these queries can fail; the defuncted socket closes and the      *)
(* connection reconnects or is shut down.                                  *)
(***************************************************************************)
FailureLocal == {LocalResult(1, V311)}
FailurePeers == {PeersResult(<<>>, V311)}
FailureEvents ==
  {e \in Events :
     \/ e.change = "UP" /\ e.node = NumHosts
     \/ e.change = "UPDATED" /\ e.target = "KEYSPACE"}

NextQueryFailure ==
  \/ Connect({-1}, {<<TRUE, FALSE>>}, {NumHosts})
  \/ Close
  \/ ConnectorDone({"ok"})
  \/ SocketClosed({"closing"})
  \/ TimerFires
  \/ HostsResponse(FailureLocal, FailurePeers)
  \/ SchemaResponse
  \/ Event(FailureEvents)
  \/ QueryFails

SpecQueryFailure == Init /\ [][NextQueryFailure]_vars

(***************************************************************************)
(* Startup against hosts that cannot be reached: every connect attempt of  *)
(* a new control connection fails with a plain error.                      *)
(***************************************************************************)
NextStartupFailure ==
  \/ Connect(AllConfigVersions, AllConfigFlags, 1..NumHosts)
  \/ ConnectorDone({"error"})

SpecStartupFailure == Init /\ [][NextStartupFailure]_vars

(***************************************************************************)
(* Reconnecting: a connection without schema tracking becomes READY, loses *)
(* its socket, fails to connect and waits for its timer, while the server  *)
(* reports nodes removed.  The event loop runs an armed timer to its       *)
(* callback, hence the fairness.                                           *)
(***************************************************************************)
ReconnectEvents == {e \in Events : e.change = "REMOVED_NODE"}
ReconnectResults == {"ok", "error"}

NextReconnect ==
  \/ Connect({-1}, {<<FALSE, FALSE>>}, {NumHosts})
  \/ Close
  \/ ConnectorDone(ReconnectResults)
  \/ SocketClosed({"open", "closing"})
  \/ TimerFires
  \/ Event(ReconnectEvents)
  \/ HostsResponse(FailureLocal, LifecyclePeers)

SpecReconnect == Init /\ [][NextReconnect]_vars /\ WF_vars(TimerFires)

(***************************************************************************)
(* The properties checked.                                                 *)
(***************************************************************************)
\* Everything but the record of the last handler and of its calls.
program_vars ==
  <<state_, session_, connection_, current_host_, query_plan_,
    protocol_version_, use_schema_, token_aware_routing_, event_types_,
    cassandra_version_, reconnect_timer_, sockets, connectors, pending,
    hosts, errors, ready_calls, attempts, crashed>>

\* C1: an event delivered to on_event while the control state is not READY
\* (NEW or CLOSED) makes the handler return without calling any session
\* method, without issuing any query and without changing any state of the
\* control connection.
C1_EventsIgnoredUnlessReady ==
  [][(last_op' = "on_event" /\ state_ /= CONTROL_STATE_READY)
       => (calls' = <<>> /\ UNCHANGED program_vars)]_vars

\* An event has been delivered during the initial scan.
C1_Witness ==
  /\ last_op = "on_event"
  /\ state_ = CONTROL_STATE_NEW
  /\ pending /= EmptyBag

\* The connect attempts among the calls cs of a handler.
ConnectsStarted(cs) == {i \in 1..Len(cs) : cs[i][1] = "connect"}

\* C2: once close() has set the state to CLOSED, no callback (socket close,
\* connect result, query result, reconnect timer, event) changes the state
\* again and none starts a connect attempt: reconnect() in CLOSED does nothing.
C2_ClosedIsTerminal ==
  [][state_ = CONTROL_STATE_CLOSED
       => /\ state_' = CONTROL_STATE_CLOSED
          /\ ConnectsStarted(calls') = {}
          /\ Len(connectors') <= Len(connectors)]_vars

\* The socket's close callback has run reconnect() after the shutdown.
C2_Witness ==
  /\ state_ = CONTROL_STATE_CLOSED
  /\ last_op = "on_close"
  /\ errors = <<>>

\* The queries among the calls cs of a handler.
QueriesIssued(cs) == {i \in 1..Len(cs) : cs[i][1] = "query"}

\* No callback is outstanding: no connect attempt in flight, no socket
\* closing, no request awaiting its response.
AllCallbacksDelivered ==
  /\ connectors = <<>>
  /\ \A c \in SockIds : sockets[c].status /= "closing"
  /\ pending = EmptyBag

OpenSockets == {c \in SockIds : sockets[c].status = "open"}

\* C3: shutdown cancels the reconnect timer and closes the socket: after
\* close(), whatever was in flight, no query is issued on any socket, and once
\* every outstanding callback has been delivered the timer is not armed and
\* no socket is open.
C3_ShutdownReleasesEverything ==
  [][/\ state_ = CONTROL_STATE_CLOSED => QueriesIssued(calls') = {}
     /\ (state_' = CONTROL_STATE_CLOSED /\ AllCallbacksDelivered')
          => (reconnect_timer_' = 0 /\ OpenSockets' = {})]_vars

\* C4: at most one socket is open for the control connection in every
\* reachable state, and a handler that starts a connect attempt while the
\* connection holds a socket has closed that socket first.
C4_AtMostOneOpenSocket ==
  /\ Cardinality(OpenSockets) <= 1
  /\ \A i \in ConnectsStarted(calls) :
       connection_ /= Null
         => \E j \in 1..(i - 1) :
              calls[j][1] = "socket_close" /\ calls[j][2] = connection_

\* A reconnect has replaced a lost socket: the new socket is open and the
\* old one is gone.
C4_Witness ==
  /\ state_ = CONTROL_STATE_READY
  /\ last_op = "handle_connect"
  /\ OpenSockets /= {}

\* C5: every successful connect, the initial one or a reconnect after a loss
\* in READY, issues the chained local+peers host scan on the socket it adopts,
\* in the same handler.
C5_ConnectIssuesHostScan ==
  [][(last_op' = "handle_connect" /\ OpenSockets' \ OpenSockets /= {})
       => /\ connection_' \in OpenSockets' \ OpenSockets
          /\ calls' = <<<<"query", connection_', "hosts">>>>
          /\ \E r \in BagToSet(pending') :
               r.sock = connection_' /\ r.kind = "hosts"]_vars

\* A reconnect in READY has succeeded and the scan is in flight on the new
\* socket.
C5_Witness ==
  /\ last_op = "handle_connect"
  /\ state_ = CONTROL_STATE_READY
  /\ ready_calls = 1
  /\ \E r \in BagToSet(pending) : r.sock = connection_ /\ r.kind = "hosts"

\* The handlers that call reconnect(false).
ReconnectCallers == {"connect", "on_close", "handle_connect", "on_reconnect"}

\* C6: when reconnect(false) finds the query plan exhausted, in state NEW it
\* reports NO_HOSTS_AVAILABLE to the session and starts no timer and no
\* connect; in state READY it arms the reconnect timer for 1000 ms, reports no
\* error and the state stays READY; when the timer fires, a fresh plan over
\* the session's hosts is built and reconnect is attempted again.
C6_PlanExhausted ==
  [][/\ (last_op' \in ReconnectCallers /\ current_host_' = Null
           /\ state_ = CONTROL_STATE_NEW)
          => /\ errors' = Append(errors, CASS_ERROR_LIB_NO_HOSTS_AVAILABLE)
             /\ reconnect_timer_' = 0
             /\ \A i \in 1..Len(calls') : calls'[i][1] /= "timer_start"
             /\ ConnectsStarted(calls') = {}
     /\ (last_op' \in ReconnectCallers /\ current_host_' = Null
           /\ state_ = CONTROL_STATE_READY)
          => /\ reconnect_timer_' = 1000
             /\ \E i \in 1..Len(calls') :
                  calls'[i][1] = "timer_start" /\ calls'[i][2] = 1000
             /\ ConnectsStarted(calls') = {}
             /\ errors' = errors
             /\ state_' = CONTROL_STATE_READY
     /\ last_op' = "on_reconnect"
          => /\ query_plan_'.index = 0
             /\ {query_plan_'.hosts[i] : i \in 1..Len(query_plan_'.hosts)}
                  = {a \in Addrs : hosts[a].present}
             /\ IF query_plan_'.hosts = <<>>
                  THEN current_host_' = Null /\ reconnect_timer_' = 1000
                  ELSE /\ query_plan_'.count = 1
                       /\ current_host_' = query_plan_'.hosts[1]
                       /\ calls' = <<<<"connect", current_host_', protocol_version_>>>>
                       /\ reconnect_timer_' = 0]_vars

\* In READY the socket was lost and every host of the plan has failed: the
\* timer is armed.
C6_Witness ==
  /\ state_ = CONTROL_STATE_READY
  /\ last_op = "handle_connect"
  /\ current_host_ = Null
  /\ reconnect_timer_ = 1000

NoRepetition(q) == \A i, j \in 1..Len(q) : i /= j => q[i] /= q[j]

\* C7: protocol negotiation terminates: from any initial version, Cassandra
\* or DSE, when the host answers every attempt with invalid-protocol in state
\* NEW, the control connection stops retrying after finitely many attempts
\* and reports UNABLE_TO_DETERMINE_PROTOCOL, and no version is attempted
\* twice against the host.
C7_NegotiationTerminates ==
  /\ [](NoRepetition(attempts))
  /\ session_ ~> [](/\ connectors = <<>>
                    /\ errors = <<CASS_ERROR_LIB_UNABLE_TO_DETERMINE_PROTOCOL>>)

\* A negotiation from the highest DSE version has run to its end.
C7_Witness ==
  /\ Len(attempts) > 1
  /\ attempts[1] = DSE_PROTOCOL_VERSION_BIT + MaxDseVersion
  /\ connectors = <<>>
  /\ errors = <<CASS_ERROR_LIB_UNABLE_TO_DETERMINE_PROTOCOL>>

\* The least k with 2^k >= n.
RECURSIVE CeilLog2(_)
CeilLog2(n) == IF n <= 1 THEN 0 ELSE 1 + CeilLog2((n + 1) \div 2)

\* The highest version value a configuration names.
HighestVersionValue == DSE_PROTOCOL_VERSION_BIT + MaxDseVersion

\* C8, as the specification states it: from any initial version, the connect
\* attempts made against one host under repeated invalid-protocol responses
\* number at most the ceiling of log2 of the highest version value.
C8_LogarithmicAttempts == Len(attempts) <= CeilLog2(HighestVersionValue)

\* The attempts a negotiation starting at version v can make: one per version
\* down to 1, and for a DSE version one per subversion down to 1 first.
AttemptBound(v) ==
  IF v >= DSE_PROTOCOL_VERSION_BIT
    THEN (v - DSE_PROTOCOL_VERSION_BIT) + CASS_HIGHEST_SUPPORTED_PROTOCOL_VERSION
    ELSE v

\* C8, amended: the connect attempts made against one host under repeated
\* invalid-protocol responses number at most v for an initial Cassandra
\* version v, and at most d plus the highest supported Cassandra version for
\* an initial DSE version of subversion d.
C8_LinearAttempts ==
  attempts /= <<>> => Len(attempts) <= AttemptBound(attempts[1])

\* A negotiation from a DSE version has used every attempt the bound allows.
C8_Witness ==
  /\ attempts /= <<>>
  /\ attempts[1] > DSE_PROTOCOL_VERSION_BIT + 1
  /\ Len(attempts) = AttemptBound(attempts[1])

\* The version the specification gives after v was refused.
SteppedDown(v) ==
  IF v >= DSE_PROTOCOL_VERSION_BIT
    THEN IF v - DSE_PROTOCOL_VERSION_BIT > 1
           THEN v - 1
           ELSE CASS_HIGHEST_SUPPORTED_PROTOCOL_VERSION
    ELSE v - 1

\* C9: on an invalid-protocol connect failure in state NEW with v > 1 the
\* next connect attempt targets the same host, the query plan is not
\* advanced, and the attempt uses the stepped-down version: v-1 for a DSE
\* version of subversion above 1, the highest supported Cassandra version for
\* a DSE version of subversion 1 or less, v-1 otherwise.  Five attempts from
\* Cassandra version 5 are the versions 5, 4, 3, 2, 1 and leave v at 1.
C9_SameHostSteppedDown ==
  [][/\ (/\ last_op' = "handle_connect"
         /\ last_result' = "invalid_protocol"
         /\ state_ = CONTROL_STATE_NEW
         /\ protocol_version_ > 1)
          => /\ current_host_' = current_host_
             /\ query_plan_' = query_plan_
             /\ protocol_version_' = SteppedDown(protocol_version_)
             /\ calls' = <<<<"connect", current_host_, SteppedDown(protocol_version_)>>>>
             /\ attempts' = Append(attempts, SteppedDown(protocol_version_))
     /\ (Len(attempts') = 5 /\ attempts'[1] = 5)
          => (attempts' = <<5, 4, 3, 2, 1>> /\ protocol_version_' = 1)]_vars

\* The fifth attempt of a negotiation from Cassandra version 5 has connected.
C9_Witness ==
  /\ attempts = <<5, 4, 3, 2, 1>>
  /\ protocol_version_ = 1
  /\ connection_ /= Null
  /\ sockets[connection_].addr = current_host_

\* The connect failures that are fatal in state NEW at version v.
FatalInNew(result, v) ==
  \/ result = "invalid_protocol" /\ v <= 1
  \/ result = "auth_error"
  \/ result = "ssl_error"

\* The error code the specification gives each of them.
FatalCode(result) ==
  CASE result = "invalid_protocol" -> CASS_ERROR_LIB_UNABLE_TO_DETERMINE_PROTOCOL
    [] result = "auth_error" -> CASS_ERROR_SERVER_BAD_CREDENTIALS
    [] result = "ssl_error" -> CASS_ERROR_LIB_UNABLE_TO_CONNECT

\* C10: in state NEW a fatal connect failure (invalid-protocol at v <= 1, an
\* authentication error or an SSL error) reports exactly the matching error
\* code to the session (UNABLE_TO_DETERMINE_PROTOCOL, BAD_CREDENTIALS,
\* UNABLE_TO_CONNECT), starts no further connect attempt and moves the
\* control state to CLOSED.
C10_FatalConnectFailure ==
  [][(/\ last_op' = "handle_connect"
      /\ state_ = CONTROL_STATE_NEW
      /\ FatalInNew(last_result', protocol_version_))
       => /\ errors' = Append(errors, FatalCode(last_result'))
          /\ ConnectsStarted(calls') = {}
          /\ connectors' = <<>>
          /\ state_' = CONTROL_STATE_CLOSED]_vars

\* The host has refused version 1 and the session has been told.
C10_Witness ==
  /\ last_op = "handle_connect"
  /\ last_result = "invalid_protocol"
  /\ attempts = <<2, 1>>
  /\ errors = <<CASS_ERROR_LIB_UNABLE_TO_DETERMINE_PROTOCOL>>
  /\ state_ = CONTROL_STATE_CLOSED

\* The failures of the transport: TCP ("error") and SSL.
TransportFailures == {"error", "ssl_error"}

\* The plan p advanced by one host, as far as it goes.
Advanced(p) ==
  [p EXCEPT !.count = IF @ < Len(p.hosts) THEN @ + 1 ELSE @]

\* C11, as the specification states it: a TCP or SSL connect failure in NEW
\* is reported to the session as a fatal error and no further host is tried;
\* in READY it reports nothing and only advances the query plan.
C11_TransportFailureFatalInNew ==
  [][/\ (/\ last_op' = "handle_connect"
         /\ last_result' \in TransportFailures
         /\ state_ = CONTROL_STATE_NEW)
          => (Len(errors') = Len(errors) + 1 /\ ConnectsStarted(calls') = {})
     /\ (/\ last_op' = "handle_connect"
         /\ last_result' \in TransportFailures
         /\ state_ = CONTROL_STATE_READY)
          => (errors' = errors /\ query_plan_' = Advanced(query_plan_))]_vars

\* C11, amended: in NEW an SSL connect failure is reported to the session as
\* UNABLE_TO_CONNECT and no further host is tried, while a TCP connect
\* failure reports nothing and moves on to the next host of the query plan
\* (NO_HOSTS_AVAILABLE is reported only when the plan is exhausted); in READY
\* either failure reports nothing and only advances the query plan.
C11_OnlySslFailureFatalInNew ==
  [][/\ (/\ last_op' = "handle_connect"
         /\ last_result' = "ssl_error"
         /\ state_ = CONTROL_STATE_NEW)
          => /\ errors' = Append(errors, CASS_ERROR_LIB_UNABLE_TO_CONNECT)
             /\ ConnectsStarted(calls') = {}
             /\ query_plan_' = query_plan_
     /\ (/\ last_op' = "handle_connect"
         /\ last_result' = "error"
         /\ state_ = CONTROL_STATE_NEW)
          => /\ query_plan_' = Advanced(query_plan_)
             /\ IF query_plan_.count < Len(query_plan_.hosts)
                  THEN /\ errors' = errors
                       /\ current_host_' /= current_host_
                       /\ calls' = <<<<"connect", current_host_', protocol_version_>>>>
                  ELSE /\ errors' = Append(errors, CASS_ERROR_LIB_NO_HOSTS_AVAILABLE)
                       /\ ConnectsStarted(calls') = {}
     /\ (/\ last_op' = "handle_connect"
         /\ last_result' \in TransportFailures
         /\ state_ = CONTROL_STATE_READY)
          => (errors' = errors /\ query_plan_' = Advanced(query_plan_))]_vars

\* In NEW the first contact point could not be reached and the second is
\* being tried.
C11_Witness ==
  /\ last_op = "handle_connect"
  /\ last_result = "error"
  /\ state_ = CONTROL_STATE_NEW
  /\ errors = <<>>
  /\ query_plan_.count = 2
  /\ connectors /= <<>>

\* The hosts the plan has returned so far, in order (0 for null).
Returned == [i \in 1..(Len(calls) - 1) |-> calls[i + 1][2]]

\* C12: for every host set of size n >= 1 and every random starting index,
\* the startup query plan returns exactly n non-null hosts, each host of the
\* set exactly once, in cyclic order starting at the random index modulo n
\* (at 0 without a PRNG), and null on every call after that.
C12_StartupPlanCoversEachHostOnce ==
  LET n == Len(query_plan_.hosts)
      start == IF calls[1][2] THEN calls[1][3] % n ELSE 0
      k == Len(Returned)
  IN /\ \A i \in 1..k :
          Returned[i] = IF i <= n THEN query_plan_.hosts[((start + i - 1) % n) + 1]
                        ELSE Null
     /\ \A i \in 1..k : i <= n => Returned[i] /= Null
     /\ k >= n => \A h \in 1..n :
                    Cardinality({i \in 1..k : Returned[i] = query_plan_.hosts[h]}) = 1

\* A plan over four hosts that started at the third has returned them all and
\* then null twice.
C12_Witness ==
  /\ Len(query_plan_.hosts) = 4
  /\ Len(calls) = 7
  /\ Returned = <<3, 4, 1, 2, Null, Null>>

\* The rules of the resolver applied in order: undecodable peer, null rpc
\* address, undecodable rpc address and a row for the connected host are
\* rejected; a wildcard rpc address gives the peer address; anything else
\* gives the rpc address.
RejectRules(A, P, R) ==
  <<P = BadInet, R = NullValue, R = BadInet, R = A \/ P = A>>
ReferenceAddress(A, P, R) ==
  IF \E i \in 1..4 : RejectRules(A, P, R)[i] THEN Null
  ELSE IF R \in Wildcards THEN P
  ELSE R
Resolved == Len(calls) = 2 /\ calls[2][1] = "determine_address_for_peer_host"

\* C13 as claimed: the resolver equals the reference rules, and an accepted
\* result is never the connected address and never a wildcard address.
C13_AcceptedNeverWildcard ==
  Resolved =>
    /\ calls[2][2] = ReferenceAddress(calls[1][2], calls[1][3], calls[1][4])
    /\ calls[2][2] /= Null =>
         calls[2][2] /= calls[1][2] /\ calls[2][2] \notin Wildcards

\* C13: for every connected address A, peer value P and rpc_address value R
\* the resolver equals the reference rules; an accepted result is never
\* equal to A, and it is a wildcard address only when R and P both are.
C13_ResolverMatchesReference ==
  Resolved =>
    /\ calls[2][2] = ReferenceAddress(calls[1][2], calls[1][3], calls[1][4])
    /\ calls[2][2] /= Null => calls[2][2] /= calls[1][2]
    /\ calls[2][2] \in Wildcards =>
         calls[1][3] \in Wildcards /\ calls[1][4] \in Wildcards
C13_Witness ==
  /\ Resolved
  /\ calls[1] = <<"peers_row", 1, 2, BIND_ANY_IPV4>>
  /\ calls[2][2] = 2

\* A full host scan ran to its purge; its connected address and peers rows.
ScanDone ==
  /\ last_op = "on_query_hosts"
  /\ \E i \in 1..Len(calls) : calls[i][1] = "purge_hosts"
ScanAddress == sockets[connection_].addr
ScanRows == last_input[2].rows
RowRejected(A, r) == r.rpc = NullValue \/ r.rpc = A \/ r.peer = A
RowValid(A, r) == ~RowRejected(A, r) /\ r.peer /= BadInet /\ r.rpc /= BadInet
RowAddress(r) == IF r.rpc \in Wildcards THEN r.peer ELSE r.rpc
ValidPeers(A, rows) ==
  {RowAddress(rows[i]) : i \in {j \in 1..Len(rows) : RowValid(A, rows[j])}}
HostCalls == {"add_host", "set_mark", "update_node_info", "on_add"}
Touched ==
  {calls[i][2] : i \in {j \in 1..Len(calls) : calls[j][1] \in HostCalls}}

\* The effects of the peers rows of a scan: a row with a null rpc_address or
\* naming the connected host causes no add_host, set_mark, update_node_info
\* or on_add; a row with a wildcard rpc_address is handled under its peer.
RowEffects ==
  /\ Touched \ {ScanAddress} = ValidPeers(ScanAddress, ScanRows)
  /\ \A i \in 1..Len(ScanRows) :
       (RowValid(ScanAddress, ScanRows[i]) /\ ScanRows[i].rpc \in Wildcards)
         => /\ ScanRows[i].peer \in Touched
            /\ hosts[ScanRows[i].peer].present

\* C14: during a full host scan a peers row whose rpc_address is null, or
\* whose rpc_address or peer is the connected host's address, causes no
\* add_host, set_mark, update_node_info or on_add; a row whose rpc_address
\* is a wildcard is added or updated under its peer address; after the scan
\* the session host set is the control host plus the hosts of the valid
\* peers rows.
C14_ScanHostSet ==
  ScanDone =>
    /\ RowEffects
    /\ PresentHosts(Cur) = {ScanAddress} \cup ValidPeers(ScanAddress, ScanRows)
\* The row effects alone, which every completed scan has.
RowEffectsOnly == ScanDone => RowEffects

\* The names of the calls cs of a handler.
CallNames(cs) == {cs[i][1] : i \in 1..Len(cs)}

\* The scan in state s is about to find no usable local row: system.local is
\* empty or the connected host is not a host of the session.
NoLocalRow(local) ==
  /\ connection_ /= Null
  /\ local.rows = 0 \/ ~hosts[sockets[connection_].addr].present

\* C15: when the full host scan's local result has no row, or the connected
\* host is not in the session, the socket is defuncted, no peers row is
\* processed, purge_hosts is not called and the state is not promoted to
\* READY; when the defuncted socket closes, on_close advances the query plan
\* and connects to its next host.
C15_EmptyLocalDefuncts ==
  [][/\ (last_op' = "on_query_hosts" /\ NoLocalRow(last_input'[1]))
          => /\ \E i \in 1..Len(calls') : calls'[i] = <<"defunct", connection_>>
             /\ sockets'[connection_].status = "closing"
             /\ CallNames(calls') \cap (HostCalls \cup {"purge_hosts", "query",
                   "on_control_connection_ready"}) \subseteq {"set_mark"}
             /\ \A i \in 1..Len(calls') :
                  calls'[i][1] = "set_mark"
                    => calls'[i][2] = sockets[connection_].addr
             /\ PresentHosts(Cur)' = PresentHosts(Cur)
             /\ state_' = state_ /\ ready_calls' = ready_calls
             /\ cassandra_version_' = cassandra_version_
             /\ query_plan_' = query_plan_
     /\ (last_op' = "on_close" /\ connection_ /= Null /\ connection_' = Null
           /\ sockets[connection_].status = "closing"
           /\ state_ /= CONTROL_STATE_CLOSED)
          => LET nxt == compute_next(query_plan_) IN
             /\ current_host_' = nxt[1]
             /\ nxt[1] /= Null =>
                  /\ query_plan_' = nxt[2]
                  /\ \E i \in 1..Len(calls') :
                       calls'[i] = <<"connect", nxt[1], protocol_version_>>
                  /\ Len(connectors') = Len(connectors) + 1
    ]_vars
C15_Witness ==
  /\ last_op = "on_close"
  /\ state_ = CONTROL_STATE_NEW
  /\ current_host_ = 2
  /\ calls = <<<<"connect", 2, protocol_version_>>>>
  /\ cassandra_version_ = V0
  /\ hosts[1].marked

\* The positions in the calls cs of the calls named name, and their hosts.
CallsAt(cs, name) == {i \in 1..Len(cs) : cs[i][1] = name}
CallHosts(cs, name) == {cs[i][2] : i \in CallsAt(cs, name)}

\* C16: a full host scan that completes without defuncting marks the
\* connected host and every host whose peers row passed the resolver, then
\* calls purge_hosts exactly once; the hosts that remain in the session are
\* those carrying the generation mark, and the hosts purged are the unmarked
\* ones.
C16_MarkedHostsSurvivePurge ==
  [][ScanDone' =>
       LET A == ScanAddress
           marked_now == CallHosts(calls', "set_mark")
           carrying == marked_now \cup {h \in Addrs : hosts[h].present /\ hosts[h].marked}
           known == PresentHosts(Cur) \cup CallHosts(calls', "add_host")
       IN /\ Cardinality(CallsAt(calls', "purge_hosts")) = 1
          /\ \A i \in CallsAt(calls', "set_mark"), k \in CallsAt(calls', "purge_hosts") :
               i < k
          /\ marked_now = {A} \cup ValidPeers(A, ScanRows')
          /\ PresentHosts(Cur)' = carrying
          /\ CallHosts(calls', "purge_hosts") = {known \ carrying}
     ]_vars
C16_Witness ==
  /\ ScanDone
  /\ ScanAddress = 1
  /\ Len(ScanRows) = 2
  /\ CallHosts(calls, "set_mark") = {1, 2}
  /\ CallHosts(calls, "purge_hosts") = {{}}

\* The handlers of refreshes and of push events.
RefreshHandlers ==
  {"on_event", "on_refresh_node_info", "on_refresh_node_info_all",
   "on_refresh_keyspace", "on_refresh_table_or_view", "on_refresh_type",
   "on_refresh_function", "on_query_meta_schema"}

\* C17: the server version V is assigned only by the full host scan, when it
\* processes the local row of the connected host, and by every scan that
\* does; single-host refreshes (of the control host too), push events and
\* schema refreshes leave it unchanged.
C17_VersionFromLocalRowOnly ==
  [][/\ cassandra_version_' /= cassandra_version_
          => (last_op' = "on_query_hosts" /\ connection_ /= Null
                /\ ~NoLocalRow(last_input'[1]))
     /\ (last_op' = "on_query_hosts" /\ connection_ /= Null
           /\ ~NoLocalRow(last_input'[1]))
          => /\ cassandra_version_' =
                  IF last_input'[1].release /= BadRelease
                    THEN last_input'[1].release
                    ELSE hosts[sockets[connection_].addr].version
             /\ cassandra_version_' = hosts'[sockets[connection_].addr].version
     /\ last_op' \in RefreshHandlers => cassandra_version_' = cassandra_version_
    ]_vars
\* The control host was refreshed to another release than the scan gave.
C17_Witness ==
  /\ last_op = "on_refresh_node_info"
  /\ connection_ /= Null
  /\ CallHosts(calls, "update_node_info") = {sockets[connection_].addr}
  /\ cassandra_version_ = V22
  /\ hosts[sockets[connection_].addr].version = V311

\* The scan of this step ran to its purge.
ScanCompletes ==
  /\ last_op' = "on_query_hosts"
  /\ connection_ /= Null
  /\ ~NoLocalRow(last_input'[1])
Tracking == use_schema_ \/ token_aware_routing_

\* C18: the state becomes READY only from NEW, and only in on_query_hosts
\* after a successful scan when neither schema tracking nor token-aware
\* routing is enabled, or in on_query_meta_schema when either is; these
\* callbacks promote whenever the state is NEW; on the transition, and only
\* then, the session gets on_control_connection_ready and the query plan is
\* replaced by a fresh session query plan.
C18_ReadyOnlyFromNew ==
  [][/\ (state_' = CONTROL_STATE_READY /\ state_ /= CONTROL_STATE_READY)
          => /\ state_ = CONTROL_STATE_NEW
             /\ IF Tracking
                  THEN last_op' = "on_query_meta_schema" /\ connection_ /= Null
                  ELSE ScanCompletes
             /\ ready_calls' = ready_calls + 1
             /\ calls'[Len(calls')] = <<"on_control_connection_ready">>
             /\ query_plan_'.index = 0 /\ query_plan_'.count = 0
             /\ Len(query_plan_'.hosts) = Cardinality(PresentHosts(Cur)')
             /\ {query_plan_'.hosts[i] : i \in 1..Len(query_plan_'.hosts)}
                  = PresentHosts(Cur)'
     /\ ("on_control_connection_ready" \in CallNames(calls')
           \/ ready_calls' /= ready_calls)
          => (state_ = CONTROL_STATE_NEW /\ state_' = CONTROL_STATE_READY)
     /\ (state_ = CONTROL_STATE_NEW
           /\ \/ ~Tracking /\ ScanCompletes
              \/ Tracking /\ last_op' = "on_query_meta_schema" /\ connection_ /= Null)
          => state_' = CONTROL_STATE_READY
    ]_vars
\* A token-aware control connection without schema tracking was promoted by
\* the bulk schema read.
C18_Witness ==
  /\ last_op = "on_query_meta_schema"
  /\ state_ = CONTROL_STATE_READY
  /\ token_aware_routing_ /\ ~use_schema_
  /\ ready_calls = 1
  /\ query_plan_.count = 0
  /\ Len(query_plan_.hosts) = 2

\* release is at least major.minor.0
AtLeast(release, major, minor) ==
  release[1] > major \/ (release[1] = major /\ release[2] >= minor)
\* The bulk schema requests in flight.
SchemaRequests == {r \in BagToSet(pending) : r.kind = "schema"}
\* The tables a bulk schema request is said to read.
TablesFor(V, schema, token_aware) ==
  (IF schema \/ token_aware THEN {"keyspaces"} ELSE {})
  \cup (IF schema THEN {"tables", "columns"} ELSE {})
  \cup (IF schema /\ AtLeast(V, 3, 0) THEN {"views", "indexes"} ELSE {})
  \cup (IF schema /\ AtLeast(V, 2, 1) THEN {"user_types"} ELSE {})
  \cup (IF schema /\ AtLeast(V, 2, 2) THEN {"functions", "aggregates"} ELSE {})

\* C19: the tables read by the bulk schema request are a function of V and
\* of the two flags: nothing when both are off; keyspaces when either is on;
\* tables and columns iff schema tracking is on; views and indexes iff it is
\* on and V >= 3.0; user_types iff it is on and V >= 2.1; functions and
\* aggregates iff it is on and V >= 2.2; the legacy tables are read iff
\* V < 3.0.0 and the system_schema tables otherwise.
C19_SchemaTablesByVersion ==
  ScanDone =>
    IF ~Tracking
      THEN SchemaRequests = {} /\ "query" \notin CallNames(calls)
      ELSE /\ calls[Len(calls)] = <<"query", connection_, "schema">>
           /\ Cardinality(SchemaRequests) = 1
           /\ \A r \in SchemaRequests :
                /\ {r.arg.tables[i] : i \in 1..Len(r.arg.tables)}
                     = TablesFor(cassandra_version_, use_schema_, token_aware_routing_)
                /\ Len(r.arg.tables)
                     = Cardinality(TablesFor(cassandra_version_, use_schema_,
                                             token_aware_routing_))
                /\ r.arg.layout = "legacy" <=> ~AtLeast(cassandra_version_, 3, 0)
                /\ r.arg.layout = "modern" <=> AtLeast(cassandra_version_, 3, 0)
\* A 2.1 server with schema tracking: the legacy tables with user_types and
\* without functions and aggregates.
C19_Witness ==
  /\ ScanDone
  /\ cassandra_version_ = <<2, 1, 1>>
  /\ use_schema_
  /\ \E r \in SchemaRequests :
       r.arg = [layout |-> "legacy",
                tables |-> <<"keyspaces", "tables", "columns", "user_types">>]

\* The scan of a fresh connection to a 3.11 server has issued the bulk
\* schema request.
SchemaReadOn311 ==
  /\ ScanDone
  /\ state_ = CONTROL_STATE_NEW
  /\ cassandra_version_ = V311
  /\ Tracking
SelectCounts == {Len(r.arg.tables) : r \in SchemaRequests}

\* C20 as claimed: after a fresh connect to a 3.11 server the bulk schema
\* request consists of 7 selects with schema tracking and of 1 select with
\* token-aware routing only.
C20_SevenSelects ==
  SchemaReadOn311 =>
    /\ \A r \in SchemaRequests : r.arg.layout = "modern"
    /\ SelectCounts = {IF use_schema_ THEN 7 ELSE 1}

\* C20: after a fresh connect to a 3.11 server the bulk schema request uses
\* the modern layout and consists of 8 selects with schema tracking (the
\* select of the keyspaces and 7 chained to it) and of 1 select, of the
\* keyspaces, with token-aware routing only.
C20_EightSelects ==
  SchemaReadOn311 =>
    /\ \A r \in SchemaRequests :
         r.arg.layout = "modern" /\ r.arg.tables[1] = "keyspaces"
    /\ SelectCounts = {IF use_schema_ THEN 8 ELSE 1}
C20_Witness ==
  /\ SchemaReadOn311
  /\ use_schema_ /\ ~token_aware_routing_
  /\ SelectCounts = {8}

\* The double buffer of the session's metadata, replayed over the calls cs of
\* a handler: the buffer the calls write to and the tables of the new
\* snapshot that the front and the back hold after every call.
MetadataStart == [front |-> {}, back |-> {}, updating |-> "front"]
MetadataStep(m, call) ==
  CASE call[1] = "metadata_clear_and_update_back" ->
         [m EXCEPT !.back = {}, !.updating = "back"]
    [] call[1] = "metadata_update" ->
         IF m.updating = "back"
           THEN [m EXCEPT !.back = @ \cup {call[2]}]
           ELSE [m EXCEPT !.front = @ \cup {call[2]}]
    [] call[1] = "metadata_swap_to_back_and_update_front" ->
         [m EXCEPT !.front = m.back, !.back = m.front, !.updating = "front"]
    [] OTHER -> m
RECURSIVE MetadataAfter(_, _)
MetadataAfter(cs, n) ==
  IF n = 0 THEN MetadataStart ELSE MetadataStep(MetadataAfter(cs, n - 1), cs[n])
MetadataCallNames ==
  {"metadata_clear_and_update_back", "metadata_update",
   "metadata_swap_to_back_and_update_front", "metadata_drop"}
\* The tables of the bulk schema responses that can arrive.
ResponseTables ==
  {{r.arg.tables[i] : i \in 1..Len(r.arg.tables)} :
     r \in {q \in BagToSet(pending) :
              q.kind = "schema" /\ sockets[q.sock].status = "open"}}
QueryFailureHandlers ==
  {"handle_query_invalid_response", "handle_query_failure", "handle_query_timeout"}

\* C21: the bulk schema callback clears the back buffer first, writes every
\* table of the response to the back and swaps once, last, so that after
\* every call the front holds none or all of the tables of the new snapshot;
\* a bulk response that is rejected, or that finds no socket, makes no
\* clear, no update and no swap.
C21_BulkSchemaSwapsOnce ==
  [][/\ (last_op' = "on_query_meta_schema" /\ connection_ /= Null /\ use_schema_)
          => LET ms == CallsAt(calls', "metadata_clear_and_update_back")
                         \cup CallsAt(calls', "metadata_update")
                         \cup CallsAt(calls', "metadata_swap_to_back_and_update_front")
                 all == CallHosts(calls', "metadata_update")
             IN /\ Cardinality(CallsAt(calls', "metadata_clear_and_update_back")) = 1
                /\ Cardinality(CallsAt(calls', "metadata_swap_to_back_and_update_front")) = 1
                /\ \A i \in ms :
                     /\ calls'[i][1] = "metadata_clear_and_update_back"
                          => \A j \in ms : i <= j
                     /\ calls'[i][1] = "metadata_swap_to_back_and_update_front"
                          => \A j \in ms : j <= i
                /\ all \in ResponseTables
                /\ Cardinality(CallsAt(calls', "metadata_update")) = Cardinality(all)
                /\ \A n \in 0..Len(calls') :
                     MetadataAfter(calls', n).front \in {{}, all}
                /\ MetadataAfter(calls', Len(calls')).front = all
     /\ (\/ last_op' \in QueryFailureHandlers
         \/ last_op' = "on_query_meta_schema" /\ (connection_ = Null \/ ~use_schema_))
          => CallNames(calls') \cap MetadataCallNames = {}
    ]_vars
C21_Witness ==
  /\ last_op = "on_query_meta_schema"
  /\ Len(calls) >= 10
  /\ calls[1] = <<"metadata_clear_and_update_back">>
  /\ calls[10] = <<"metadata_swap_to_back_and_update_front">>
  /\ MetadataAfter(calls, 9).front = {}
  /\ Cardinality(MetadataAfter(calls, 10).front) = 8

\* The callbacks of the targeted refreshes, and the case where the response
\* now being processed holds no row for the target: an empty result, for the
\* table refresh no table row and no view row (a server before 3.0 sends no
\* view result), and for the system.peers read of a single host no row that
\* the resolver accepts with the host's address.
TargetedCallbacks ==
  {"on_refresh_node_info", "on_refresh_node_info_all", "on_refresh_keyspace",
   "on_refresh_table_or_view", "on_refresh_type", "on_refresh_function"}
NoMatchingRow ==
  /\ last_op \in TargetedCallbacks
  /\ connection_ /= Null
  /\ IF last_op = "on_refresh_node_info_all"
       THEN \A i \in 1..Len(last_input[2].rows) :
              ~ /\ RowValid(ScanAddress, last_input[2].rows[i])
                /\ RowAddress(last_input[2].rows[i]) = last_input[1].host
     ELSE IF last_op = "on_refresh_table_or_view"
       THEN /\ last_input[2] = 0
            /\ last_input[1].arg = "modern" => last_input[3] = 0
     ELSE last_input[2] = 0

\* C22: a targeted refresh (keyspace, table or view, user type, function or
\* aggregate, single host) whose successful response holds no matching row
\* makes no call at all: no metadata, token-map or session update, no query
\* and no defunct; the only change is that the answered request is no longer
\* in flight.
C22_EmptyRefreshIgnored ==
  [][NoMatchingRow' =>
       /\ calls' = <<>>
       /\ pending' = pending (-) SetToBag({last_input'[1]})
       /\ UNCHANGED <<state_, session_, connection_, current_host_, query_plan_,
                      protocol_version_, use_schema_, token_aware_routing_,
                      event_types_, cassandra_version_, reconnect_timer_,
                      sockets, connectors, hosts, errors, ready_calls,
                      attempts, crashed>>]_vars

\* Every kind of targeted refresh is answered without a matching row.
C22_Witness ==
  /\ NoMatchingRow
  /\ last_op = "on_refresh_node_info_all"
  /\ last_input[2].rows /= <<>>
  /\ calls = <<>>
C22_WitnessKeyspace == NoMatchingRow /\ last_op = "on_refresh_keyspace"
C22_WitnessTable ==
  NoMatchingRow /\ last_op = "on_refresh_table_or_view" /\ last_input[3] = 1
C22_WitnessType == NoMatchingRow /\ last_op = "on_refresh_type"
C22_WitnessFunction == NoMatchingRow /\ last_op = "on_refresh_function"
C22_WitnessLocal == NoMatchingRow /\ last_op = "on_refresh_node_info"

\* The session state an UP event is about: the host set and, per host, whether
\* the host is up.
UpEvent(a) ==
  [event_type |-> CASS_EVENT_STATUS_CHANGE, change |-> "UP", node |-> a,
   target |-> "NONE"]
SessionState ==
  [a \in Addrs |-> [present |-> hosts[a].present, up |-> hosts[a].state = "UP"]]
\* The step processes UP for address a in READY right after the same event
\* was processed.
SecondUp(a) ==
  /\ state_ = CONTROL_STATE_READY
  /\ last_op = "on_event" /\ last_input = <<UpEvent(a)>>
  /\ last_op' = "on_event" /\ last_input' = <<UpEvent(a)>>

\* C23: in READY, processing the same UP event again leaves the session state
\* (host set and up/down flags) as the first processing left it, for every
\* address, known to the session or not.
C23_UpIdempotent ==
  [][\A a \in Addrs : SecondUp(a) => SessionState' = SessionState]_vars

\* The part of C23 that holds: the address was known to the session when the
\* first UP was processed.
C23_UpIdempotentForKnown ==
  [][\A a \in Addrs :
       SecondUp(a) /\ "add_host" \notin CallNames(calls)
         => SessionState' = SessionState /\ calls' = <<>>]_vars

\* UP was processed for a host that was down, and the host is up.
C23_Witness ==
  /\ last_op = "on_event"
  /\ \E a \in Addrs :
       /\ last_input = <<UpEvent(a)>>
       /\ calls /= <<>> /\ calls[1] = <<"on_up", a>>
       /\ hosts[a].state = "UP"

\* The step processes NEW_NODE for address a in READY.
NewNode(a) ==
  /\ state_ = CONTROL_STATE_READY
  /\ last_op' = "on_event"
  /\ last_input'[1].event_type = CASS_EVENT_TOPOLOGY_CHANGE
  /\ last_input'[1].change = "NEW_NODE"
  /\ last_input'[1].node = a
NodeInfoCallbacks == {"on_refresh_node_info", "on_refresh_node_info_all"}
\* The single-host refresh now processed found the row of its host.
HostRowFound ==
  last_op \in NodeInfoCallbacks /\ connection_ /= Null /\ ~NoMatchingRow
\* The single-host refresh of host a carrying the new flag is sent by the
\* step; when no stream id is free the socket is defuncted instead.
NewHostRefreshIssued(a) ==
  IF can_write(Cur, connection_)
    THEN \E req \in BagToSet(pending') :
           /\ req.host = a /\ req.is_new /\ req.sock = connection_
           /\ req.kind \in {"node_info", "node_info_all"}
           /\ pending' = pending (+) SetToBag({req})
           /\ calls' = <<<<"add_host", a>>, <<"query", connection_, req.kind>>>>
    ELSE /\ pending' = pending
         /\ calls' = <<<<"add_host", a>>, <<"defunct", connection_>>>>

\* C24: NEW_NODE in READY for an address absent from the session calls
\* add_host and then issues one single-host refresh with the new flag, and
\* nothing else; for an address in the session the event makes no call and
\* changes nothing.  Session on_add is never called by the event handler: for
\* a host added by an event it is called only by the callback of a
\* single-host refresh that carries the new flag for that host and found the
\* host's row, and that callback always calls it.
C24_NewNodeAddsThenRefreshes ==
  [][/\ \A a \in Addrs :
          NewNode(a) =>
            IF hosts[a].present
              THEN calls' = <<>> /\ UNCHANGED program_vars
              ELSE /\ hosts'[a].present
                   /\ NewHostRefreshIssued(a)
     /\ \A a \in Addrs :
          <<"on_add", a>> \in {calls'[i] : i \in 1..Len(calls')} =>
            \/ /\ HostRowFound'
               /\ last_input'[1].host = a /\ last_input'[1].is_new
            \/ last_op' = "on_query_hosts" /\ ~hosts[a].present
     /\ HostRowFound' /\ last_input'[1].is_new =>
          Cardinality(CallsAt(calls', "on_add")) = 1
            /\ CallHosts(calls', "on_add") = {last_input'[1].host}]_vars

\* The refresh of a host added by NEW_NODE is answered with the host's row:
\* the callback updates the host and tells the session it was added.
C24_Witness ==
  /\ HostRowFound
  /\ last_op = "on_refresh_node_info_all"
  /\ last_input[1].is_new
  /\ calls = <<<<"update_node_info", last_input[1].host>>,
               <<"on_add", last_input[1].host>>>>
\* NEW_NODE arrived for a host of the session.
C24_WitnessPresent ==
  /\ last_op = "on_event" /\ state_ = CONTROL_STATE_READY
  /\ last_input[1].change = "NEW_NODE"
  /\ hosts[last_input[1].node].present
  /\ calls = <<>>

\* The step processes, in READY, a schema-change event with a change of the
\* set changes.
SchemaEvent(changes) ==
  /\ state_ = CONTROL_STATE_READY
  /\ last_op' = "on_event"
  /\ last_input'[1].event_type = CASS_EVENT_SCHEMA_CHANGE
  /\ last_input'[1].change \in changes
\* The metadata drop of each target kind.
DropOf(target) ==
  CASE target = "KEYSPACE" -> "keyspace"
    [] target = "TABLE" -> "table_or_view"
    [] target = "TYPE" -> "user_type"
    [] target = "FUNCTION" -> "function"
    [] target = "AGGREGATE" -> "aggregate"

\* C25: with schema tracking enabled, a SCHEMA_CHANGE DROPPED event processed
\* in READY makes exactly one call, the metadata drop of the event's target
\* kind; no query is issued and nothing else changes.
C25_DropCallsMetadataOnce ==
  [][SchemaEvent({"DROPPED"}) /\ use_schema_ =>
       /\ calls' = <<<<"metadata_drop", DropOf(last_input'[1].target)>>>>
       /\ UNCHANGED program_vars]_vars

\* A table was dropped, and the only call is the drop of a table or view.
C25_Witness ==
  /\ last_op = "on_event" /\ state_ = CONTROL_STATE_READY /\ use_schema_
  /\ last_input[1].change = "DROPPED" /\ last_input[1].target = "TABLE"
  /\ calls = <<<<"metadata_drop", "table_or_view">>>>

\* C26: with schema tracking off and token-aware routing on, a schema-change
\* event (CREATED, UPDATED or DROPPED) whose target is not KEYSPACE is
\* ignored: no query, no metadata call, no token-map call, no change.
C26_NonKeyspaceIgnoredWithoutTracking ==
  [][/\ SchemaEvent(SchemaChanges)
     /\ ~use_schema_ /\ token_aware_routing_
     /\ last_input'[1].target /= "KEYSPACE"
     => calls' = <<>> /\ UNCHANGED program_vars]_vars

\* Without schema tracking the update of a table was ignored, while the
\* connection has a free stream id to send a query with.
C26_Witness ==
  /\ last_op = "on_event" /\ state_ = CONTROL_STATE_READY
  /\ ~use_schema_ /\ token_aware_routing_
  /\ last_input[1].change = "UPDATED" /\ last_input[1].target = "TABLE"
  /\ connection_ /= Null /\ can_write(Cur, connection_)
  /\ calls = <<>>

\* The step runs on_close() for a socket.
SocketCloses == last_op' = "on_close"
\* The hosts and versions of the connect attempts among the calls cs.
ConnectTargets(cs) == {<<cs[i][2], cs[i][3]>> : i \in ConnectsStarted(cs)}

\* C27: a control query, single or chained, that is answered by an invalid
\* response or a server error, or that times out, defuncts the current socket
\* and runs no success continuation: the only call is the defunct, no query
\* is issued and no host, version or state changes.  When a socket then
\* closes, on_close() clears connection_ and runs reconnect(false): in state
\* CLOSED nothing is started, otherwise the next host of the plan is taken
\* and connected to, or, with the plan exhausted, the timer is armed (READY)
\* or the error reported (NEW).
C27_FailedQueryDefuncts ==
  [][/\ last_op' \in QueryFailureHandlers /\ connection_ /= Null =>
          /\ calls' = <<<<"defunct", connection_>>>>
          /\ sockets'[connection_].status = "closing"
          /\ pending' = pending (-) SetToBag({last_input'[1]})
          /\ UNCHANGED <<state_, connection_, current_host_, query_plan_,
                         cassandra_version_, hosts, connectors, errors,
                         ready_calls, reconnect_timer_>>
     /\ SocketCloses =>
          /\ connection_' = Null
          /\ IF state_ = CONTROL_STATE_CLOSED
               THEN /\ ConnectsStarted(calls') = {}
                    /\ UNCHANGED <<state_, current_host_, query_plan_, errors,
                                   reconnect_timer_, connectors>>
               ELSE /\ current_host_' = compute_next(query_plan_)[1]
                    /\ query_plan_' = compute_next(query_plan_)[2]
                    /\ IF current_host_' /= Null
                         THEN /\ Cardinality(ConnectsStarted(calls')) = 1
                              /\ ConnectTargets(calls')
                                   = {<<current_host_', protocol_version_>>}
                         ELSE /\ ConnectsStarted(calls') = {}
                              /\ \/ reconnect_timer_' = RECONNECT_WAIT_MS
                                 \/ errors' /= errors]_vars

\* The chained host scan was answered by an invalid response and the socket
\* it was sent on is defuncted.
C27_Witness ==
  /\ last_op = "handle_query_invalid_response"
  /\ last_input[1].kind = "hosts"
  /\ calls = <<<<"defunct", connection_>>>>
  /\ sockets[connection_].status = "closing"
\* A single query, the refresh of a keyspace, timed out.
C27_WitnessSingle ==
  /\ last_op = "handle_query_timeout"
  /\ last_input[1].kind = "keyspace"
  /\ calls = <<<<"defunct", connection_>>>>
\* The defuncted socket has closed and the next host is being connected to.
C27_WitnessReconnect ==
  /\ last_op = "on_close" /\ state_ /= CONTROL_STATE_CLOSED
  /\ connection_ = Null /\ current_host_ /= Null
  /\ ConnectsStarted(calls) /= {}

\* The event e, processed in the current state, submits a refresh query.
SubmitsRefresh(e) ==
  CASE e.event_type = CASS_EVENT_TOPOLOGY_CHANGE ->
         \/ e.change = "NEW_NODE" /\ ~hosts[e.node].present
         \/ e.change = "MOVED_NODE" /\ hosts[e.node].present
    [] e.event_type = CASS_EVENT_STATUS_CHANGE ->
         e.change = "UP" /\ ~(hosts[e.node].present /\ hosts[e.node].state = "UP")
    [] e.event_type = CASS_EVENT_SCHEMA_CHANGE ->
         /\ e.change \in {"CREATED", "UPDATED"}
         /\ use_schema_ \/ e.target = "KEYSPACE"
\* The step processes, in READY, an event that submits a refresh while every
\* stream id of the connection is in use.
ExhaustedSubmit ==
  /\ state_ = CONTROL_STATE_READY
  /\ last_op' = "on_event"
  /\ SubmitsRefresh(last_input'[1])
  /\ connection_ /= Null
  /\ ~can_write(Cur, connection_)
\* The refresh was not queued and the connection is defuncted.
DefunctedNotQueued ==
  /\ pending' = pending
  /\ calls' /= <<>>
  /\ calls'[Len(calls')] = <<"defunct", connection_>>
  /\ sockets'[connection_].status = "closing"

\* C28: when a refresh query (single host, keyspace, table or view, user type,
\* function or aggregate) is submitted while the stream-id pool of the
\* connection is exhausted, the request is not queued and the connection is
\* defuncted.
C28_ExhaustedSubmitDefuncts ==
  [][ExhaustedSubmit => DefunctedNotQueued]_vars

\* The part of C28 that holds: every refresh but that of a table or view.
C28_ExhaustedSubmitDefunctsButTable ==
  [][ExhaustedSubmit /\ last_input'[1].target /= "TABLE" => DefunctedNotQueued]_vars

\* The refresh of a table or view is submitted with no stream id free:
\* nothing is queued and the socket stays open.
C28_TableSubmitLost ==
  /\ last_op = "on_event" /\ state_ = CONTROL_STATE_READY
  /\ last_input[1].target = "TABLE" /\ last_input[1].change = "UPDATED"
  /\ use_schema_ /\ connection_ /= Null
  /\ StreamsInUse(Cur, connection_) >= MaxStreams
  /\ sockets[connection_].status = "open"
  /\ calls = <<>>

\* The state the callback of request req would start from had on_close()
\* cleared the socket pointer before the result was handed over.
SocketGone(req) == Take([Cur EXCEPT !.connection_ = Null], req)
\* The callback of request req, given any result, returns the state it
\* started from: no call and no change.
ReturnsUntouched(req) ==
  LET s == SocketGone(req) IN
  CASE req.kind = "hosts" ->
         \A local \in SchemaEventsLocal, peers \in RefreshPeers :
           on_query_hosts(s, local, peers, <<>>) = s
    [] req.kind = "schema" ->
         on_query_meta_schema(s, req.arg.tables, <<>>) = s
    [] req.kind = "node_info" ->
         \A rows \in 0..1, release \in RefreshReleases :
           on_refresh_node_info(s, req, rows, release) = s
    [] req.kind = "node_info_all" ->
         \A peers \in RefreshNodePeers :
           on_refresh_node_info_all(s, req, peers.rows, peers.release) = s
    [] req.kind = "keyspace" ->
         \A rows \in 0..1 : on_refresh_keyspace(s, rows) = s
    [] req.kind = "table" ->
         \A table_rows \in 0..1, view_rows \in 0..1 :
           on_refresh_table_or_view(s, req, table_rows, view_rows) = s
    [] req.kind = "type" ->
         \A rows \in 0..1 : on_refresh_type(s, rows) = s
    [] req.kind = "function" ->
         \A rows \in 0..1 : on_refresh_function(s, req, rows) = s
HostCallbackKinds == {"hosts", "schema", "node_info", "node_info_all"}

\* C29: the callback of every query in flight (full host scan, bulk schema
\* read, single-host refresh, keyspace, table or view, user type and function
\* refresh), handed its result when the current socket pointer is null,
\* returns without a call to the session, the metadata or the token map and
\* without a change of state.
C29_CallbacksRecheckSocket ==
  \A req \in BagToSet(pending) : ReturnsUntouched(req)

\* The part of C29 that holds: the callbacks of the full host scan, of the
\* bulk schema read and of the single-host refreshes.
C29_HostCallbacksRecheckSocket ==
  \A req \in BagToSet(pending) :
    req.kind \in HostCallbackKinds => ReturnsUntouched(req)

\* A keyspace refresh is in flight whose callback, handed a row with the
\* socket pointer null, updates the metadata.
C29_KeyspaceCallbackUpdates ==
  \E req \in BagToSet(pending) :
    /\ req.kind = "keyspace" /\ use_schema_
    /\ on_refresh_keyspace(SocketGone(req), 1).calls
         = Append(calls, <<"metadata_update", "keyspaces">>)

\* The bulk schema requests sent by the calls cs of a handler.
SchemaReadsSent(cs) ==
  {i \in 1..Len(cs) : cs[i][1] = "query" /\ cs[i][3] = "schema"}

\* C30: over any sequence of connects, losses and reconnects of one control
\* connection, at most one bulk schema request is issued: no step sends a
\* bulk schema request after one has been sent.
C30_SchemaReadAtMostOnce ==
  [][SchemaReadsSent(calls') /= {} => ~schema_read_issued]_vars

\* C30 as the code has it: the bulk schema read follows every completed host
\* scan, the initial one and the one of every reconnect, when schema tracking
\* or token-aware routing is enabled; each scan sends one, on the socket it
\* ran on, and no other handler sends any.
C30_SchemaReadAfterEveryScan ==
  [][/\ ScanCompletes /\ Tracking /\ can_write(Take(Cur, last_input'[3]), connection_)
          => /\ Cardinality(SchemaReadsSent(calls')) = 1
             /\ \E req \in SchemaRequests' :
                  /\ req.sock = connection_
                  /\ pending' = (pending (-) SetToBag({last_input'[3]}))
                                  (+) SetToBag({req})
     /\ SchemaReadsSent(calls') /= {}
          => ScanCompletes /\ Tracking]_vars

\* A reconnect in READY has run its host scan and sent the bulk schema read
\* again.
C30_Witness ==
  /\ last_op = "on_query_hosts"
  /\ state_ = CONTROL_STATE_READY
  /\ ready_calls = 1
  /\ SchemaReadsSent(calls) /= {}
  /\ SchemaRequests /= {}

\* The scan of this step ran to its purge on a local row whose
\* release_version does not parse.
ScanWithBadRelease == ScanCompletes /\ last_input'[1].release = BadRelease

\* C31: a full host scan whose local row carries a release_version that does
\* not parse leaves the server version V as it was before the scan, whether
\* or not the scan runs on the control host of the previous connection.
C31_BadReleaseKeepsVersion ==
  [][ScanWithBadRelease => cassandra_version_' = cassandra_version_]_vars

\* What the code does in that case: V becomes the version stored in the
\* connected host's record, which the scan left alone.
C31_BadReleaseTakesHostVersion ==
  [][ScanWithBadRelease =>
       /\ hosts'[sockets[connection_].addr].version
            = hosts[sockets[connection_].addr].version
       /\ cassandra_version_' = hosts[sockets[connection_].addr].version]_vars

\* The k-th host (from 1) of a plan, in the order the plan hands hosts out.
PlanHost(plan, k) ==
  plan.hosts[((plan.index + k - 1) % Len(plan.hosts)) + 1]

\* The step is connect(), or handle_connect() on a plain error in state NEW.
StartupAttemptEnds ==
  \/ last_op' = "connect"
  \/ /\ last_op' = "handle_connect" /\ last_result' = "error"
     /\ state_ = CONTROL_STATE_NEW

\* C32: while the state is NEW and every connect attempt fails with a plain
\* error, the hosts of the startup plan are attempted one at a time, each
\* exactly once and in plan order, with the protocol version unchanged; when
\* the plan is exhausted NO_HOSTS_AVAILABLE is reported once, no connect
\* attempt and no timer is started, and nothing happens afterwards.
C32_StartupPlanTriedOnce ==
  [][/\ errors = <<>>
     /\ StartupAttemptEnds =>
          LET plan == query_plan_'
              tried == plan.count
          IN
          /\ current_host_' /= Null => state_' = CONTROL_STATE_NEW
          /\ plan.hosts = [i \in 1..Len(plan.hosts) |-> i]
          /\ last_op' = "handle_connect" =>
               /\ plan.hosts = query_plan_.hosts /\ plan.index = query_plan_.index
               /\ protocol_version_' = protocol_version_
          /\ reconnect_timer_' = 0
          /\ \A i \in 1..Len(calls') : calls'[i][1] /= "timer_start"
          /\ IF current_host_' /= Null
               THEN /\ tried = (IF last_op' = "connect" THEN 1
                                ELSE query_plan_.count + 1)
                    /\ current_host_' = PlanHost(plan, tried)
                    /\ \A k \in 1..(tried - 1) : PlanHost(plan, k) /= current_host_'
                    /\ Cardinality(ConnectsStarted(calls')) = 1
                    /\ ConnectTargets(calls') = {<<current_host_', protocol_version_'>>}
                    /\ Len(connectors') = 1
                    /\ errors' = <<>>
               ELSE /\ tried = Len(plan.hosts)
                    /\ last_op' = "handle_connect" => query_plan_.count = tried
                    /\ ConnectsStarted(calls') = {}
                    /\ connectors' = <<>>
                    /\ errors' = <<CASS_ERROR_LIB_NO_HOSTS_AVAILABLE>>]_vars

\* Every host of a plan that starts at its last host was attempted, and the
\* error has been reported.
C32_Witness ==
  /\ last_op = "handle_connect" /\ last_result = "error"
  /\ Len(query_plan_.hosts) = NumHosts
  /\ query_plan_.index = NumHosts - 1
  /\ query_plan_.count = NumHosts
  /\ current_host_ = Null
  /\ errors = <<CASS_ERROR_LIB_NO_HOSTS_AVAILABLE>>

\* The calls of a handler that report an error to the session.
ErrorsReported(cs) == {i \in 1..Len(cs) : cs[i][1] = "on_control_connection_error"}

\* C33: on_control_connection_error is called only while the state is NEW;
\* once the state is READY (or CLOSED) no socket loss, connect failure, query
\* failure, timeout or exhausted plan reports an error to the session.
C33_ErrorsOnlyInNew ==
  [][/\ (errors' /= errors \/ ErrorsReported(calls') /= {})
          => state_ = CONTROL_STATE_NEW
     /\ state_ /= CONTROL_STATE_NEW
          => errors' = errors /\ ErrorsReported(calls') = {}]_vars

\* In READY a reconnect attempt failed on bad credentials and the plan is
\* exhausted: the timer is armed and no error has been reported.
C33_Witness ==
  /\ last_op = "handle_connect" /\ last_result = "auth_error"
  /\ state_ = CONTROL_STATE_READY
  /\ current_host_ = Null
  /\ reconnect_timer_ = RECONNECT_WAIT_MS
  /\ errors = <<>>
\* In READY a reconnect attempt was refused as an invalid protocol version.
C33_WitnessProtocol ==
  /\ last_op = "handle_connect" /\ last_result = "invalid_protocol"
  /\ state_ = CONTROL_STATE_READY
  /\ errors = <<>>

\* C34: the control state moves only along NEW -> READY -> CLOSED: READY is
\* left only for CLOSED and CLOSED is never left, so a socket lost in READY
\* reconnects with the state still READY; on_control_connection_ready is
\* called at most once, on the step from NEW to READY, and never after an
\* error has been reported to the session.
C34_StateMonotone ==
  [][/\ state_ = CONTROL_STATE_READY
          => state_' \in {CONTROL_STATE_READY, CONTROL_STATE_CLOSED}
     /\ state_ = CONTROL_STATE_CLOSED => state_' = CONTROL_STATE_CLOSED
     /\ last_op' = "on_close" /\ state_ = CONTROL_STATE_READY
          => state_' = CONTROL_STATE_READY
     /\ ready_calls' <= 1
     /\ \A i \in 1..Len(calls') :
          calls'[i][1] = "on_control_connection_ready"
            => /\ ready_calls = 0 /\ ready_calls' = 1
               /\ state_ = CONTROL_STATE_NEW /\ state_' = CONTROL_STATE_READY
               /\ errors = <<>>]_vars

\* The socket of a READY connection was lost and the next host is being
\* connected to, the state still READY.
C34_Witness ==
  /\ last_op = "on_close"
  /\ state_ = CONTROL_STATE_READY /\ ready_calls = 1
  /\ connection_ = Null
  /\ Len(connectors) = 1

\* The connection is READY and has no adopted socket.
ReadyWithoutSocket == state_ = CONTROL_STATE_READY /\ connection_ = Null

\* C35, the invariant: in every state that is READY without an adopted
\* socket either one connect attempt is in flight or the reconnect timer is
\* armed: never both, never two attempts, never neither.
C35_OneAttemptOrTimer ==
  ReadyWithoutSocket =>
    \/ Len(connectors) = 1 /\ reconnect_timer_ = 0
    \/ connectors = <<>> /\ reconnect_timer_ = RECONNECT_WAIT_MS

\* C35, the consequence: a READY connection that lost its socket eventually
\* has a connect attempt in flight, unless it is closed first.
C35_EventuallyConnects ==
  ReadyWithoutSocket ~> (connectors /= <<>> \/ state_ = CONTROL_STATE_CLOSED)

\* The consequence as far as it holds: unless the session has no host left.
C35_ConnectsWhileHostsKnown ==
  ReadyWithoutSocket ~> \/ connectors /= <<>>
                        \/ state_ = CONTROL_STATE_CLOSED
                        \/ PresentHosts(Cur) = {}

C35_WitnessTimer ==
  /\ ReadyWithoutSocket
  /\ last_op = "on_reconnect"
  /\ Len(connectors) = 1 /\ reconnect_timer_ = 0

\* The negotiation step: a connect attempt was refused as an invalid protocol
\* while the state was NEW.
NegotiationStep ==
  /\ last_op' = "handle_connect"
  /\ last_result' = "invalid_protocol"
  /\ state_ = CONTROL_STATE_NEW

\* C36: once connect() has taken the configured version, the protocol
\* version changes only in the negotiation step, where it is lowered; every
\* other step (the advance to the next host, a successful connect, a scan,
\* an event, a connect failure in state READY, invalid-protocol included)
\* leaves it unchanged, and every connect attempt offers the version as it
\* then stands, so a version lowered for one host is offered to every later
\* host and never raised.
C36_VersionChangesOnlyInNegotiation ==
  [][/\ (last_op' /= "connect" /\ protocol_version_' /= protocol_version_)
          => /\ NegotiationStep
             /\ protocol_version_' = lower_protocol_version(protocol_version_)
             /\ protocol_version_' < protocol_version_
     /\ \A i \in ConnectsStarted(calls') : calls'[i][3] = protocol_version_']_vars

\* A version lowered for the first host of the plan is offered to the second.
C36_Witness ==
  /\ last_op = "handle_connect"
  /\ last_result = "error"
  /\ state_ = CONTROL_STATE_NEW
  /\ protocol_version_ = 1
  /\ \E i \in ConnectsStarted(calls) :
       /\ calls[i][3] = 1
       /\ calls[i][2] = current_host_

\* A reconnect attempt of a READY control connection was refused as an
\* invalid protocol, and the version stayed as negotiated.
C36_WitnessReady ==
  /\ last_op = "handle_connect"
  /\ last_result = "invalid_protocol"
  /\ state_ = CONTROL_STATE_READY
  /\ protocol_version_ = 2

\* The session and token-map mutators that take a host.
HostMutators == {"token_map_host_remove", "on_remove", "on_up", "on_down"}

\* The calls among cs that hand a mutator the null host.
NullHostCalls(cs) ==
  {i \in 1..Len(cs) : cs[i][1] \in HostMutators /\ cs[i][2] = Null}

\* C37: no handler calls token_map_host_remove, on_remove, on_up or on_down
\* with the null host that get_host returns for an unknown address.
C37_NoNullHostCalls ==
  NullHostCalls(calls) = {}

\* C37, the events other than MOVED_NODE: a REMOVED_NODE, UP or DOWN event
\* never hands a mutator the null host.
C37_NoNullHostCallsButMoved ==
  (last_op = "on_event" /\ last_input[1].change /= "MOVED_NODE")
    => NullHostCalls(calls) = {}

\* A MOVED_NODE event for an address the session does not know has called
\* token_map_host_remove with the null host.
C37_MovedUnknownRemovesNull ==
  /\ last_op = "on_event"
  /\ last_input[1].change = "MOVED_NODE"
  /\ ~hosts[last_input[1].node].present
  /\ calls = <<<<"token_map_host_remove", Null>>>>

\* A REMOVED_NODE event for an address the session does not know was
\* processed without a call.
C37_RemovedUnknownIgnored ==
  /\ last_op = "on_event"
  /\ last_input[1].change = "REMOVED_NODE"
  /\ state_ = CONTROL_STATE_READY
  /\ ~hosts[last_input[1].node].present
  /\ calls = <<>>

====
